---- MODULE Spec2Model ----
(***************************************************************************)
(* Captureit: the client (src/src/App.jsx) as a state machine.             *)
(*                                                                         *)
(* Strings are tuples of one-character strings, so that the regular        *)
(* expressions of the source can be computed rather than assumed.          *)
(* Null is JavaScript's null/undefined.                                    *)
(***************************************************************************)
EXTENDS Integers, Sequences, FiniteSets, TLC

-----------------------------------------------------------------------------
(* Bounds of the model. *)

\* how many items generateId may be asked to name in one run
MaxItems == 1
\* how many clock steps Date.now() takes in one run
MaxClock == 2
\* the length of one clock step, in milliseconds
TickMs == 5000

-----------------------------------------------------------------------------
(* Strings *)

Null == <<"<null>">>

LowerLetters == <<"a","b","c","d","e","f","g","h","i","j","k","l","m",
                  "n","o","p","q","r","s","t","u","v","w","x","y","z">>
UpperLetters == <<"A","B","C","D","E","F","G","H","I","J","K","L","M",
                  "N","O","P","Q","R","S","T","U","V","W","X","Y","Z">>
Digits == {"0","1","2","3","4","5","6","7","8","9"}

Range(s) == {s[i] : i \in 1..Len(s)}

\* JavaScript truthiness of a string-or-null value
Truthy(s) == s # Null /\ s # <<>>

\* a || b on string-or-null values
OrElse(a, b) == IF Truthy(a) THEN a ELSE b

toLowerChar(c) ==
    IF c \in Range(UpperLetters)
    THEN LowerLetters[CHOOSE i \in 1..26 : UpperLetters[i] = c]
    ELSE c

toUpperChar(c) ==
    IF c \in Range(LowerLetters)
    THEN UpperLetters[CHOOSE i \in 1..26 : LowerLetters[i] = c]
    ELSE c

toLowerCase(s) == [i \in 1..Len(s) |-> toLowerChar(s[i])]

\* the regular expression class \w
IsWordChar(c) == c \in Range(LowerLetters) \cup Range(UpperLetters) \cup Digits \cup {"_"}

\* the regular expression class \s, over the characters of the model
IsSpace(c) == c \in {" ", "\t", "\n"}

\* the regular expression assertion \b between positions i-1 and i of s
WordBoundary(s, i) ==
    LET before == i > 1 /\ i - 1 <= Len(s) /\ IsWordChar(s[i-1])
        after  == i >= 1 /\ i <= Len(s) /\ IsWordChar(s[i])
    IN  before # after

\* s.startsWith(p) at position i; "." in a pattern is the wildcard when wild
MatchesAt(s, i, p, wild) ==
    /\ i + Len(p) - 1 <= Len(s)
    /\ \A k \in 1..Len(p) : p[k] = s[i + k - 1] \/ (wild /\ p[k] = ".")

StartsWith(s, p) == MatchesAt(s, 1, p, FALSE)
EndsWith(s, p) == Len(p) <= Len(s) /\ MatchesAt(s, Len(s) - Len(p) + 1, p, FALSE)
Contains(s, p) == \E i \in 1..(Len(s) + 1) : MatchesAt(s, i, p, FALSE)

Drop(s, n) == SubSeq(s, n + 1, Len(s))

\* s.replace(p, '') for a literal p: the first occurrence only
RemoveFirst(s, p) ==
    IF Contains(s, p)
    THEN LET i == CHOOSE j \in 1..(Len(s) + 1) :
                      /\ MatchesAt(s, j, p, FALSE)
                      /\ \A k \in 1..(j - 1) : ~MatchesAt(s, k, p, FALSE)
         IN  SubSeq(s, 1, i - 1) \o Drop(s, i + Len(p) - 1)
    ELSE s

\* s.replace(new RegExp(p, 'g'), '') for a pattern p of literals and "."
RECURSIVE RemoveAllFrom(_, _, _)
RemoveAllFrom(s, i, p) ==
    IF i > Len(s) THEN <<>>
    ELSE IF MatchesAt(s, i, p, TRUE) THEN RemoveAllFrom(s, i + Len(p), p)
    ELSE <<s[i]>> \o RemoveAllFrom(s, i + 1, p)

RemoveAll(s, p) == IF p = <<>> THEN s ELSE RemoveAllFrom(s, 1, p)

\* s.replace(new RegExp('\\b' + w + '\\b', 'g'), '')
RECURSIVE RemoveWordFrom(_, _, _)
RemoveWordFrom(s, i, w) ==
    IF i > Len(s) THEN <<>>
    ELSE IF /\ MatchesAt(s, i, w, FALSE)
            /\ WordBoundary(s, i)
            /\ WordBoundary(s, i + Len(w))
         THEN RemoveWordFrom(s, i + Len(w), w)
    ELSE <<s[i]>> \o RemoveWordFrom(s, i + 1, w)

RemoveWord(s, w) == RemoveWordFrom(s, 1, w)

\* s.split(/\s+/).filter(Boolean)
RECURSIVE Tokens(_)
Tokens(s) ==
    IF s = <<>> THEN <<>>
    ELSE IF IsSpace(s[1]) THEN Tokens(Tail(s))
    ELSE LET ends == {j \in 1..Len(s) : j = Len(s) \/ IsSpace(s[j+1])}
             e == CHOOSE j \in ends : \A k \in ends : j <= k
         IN  <<SubSeq(s, 1, e)>> \o Tokens(Drop(s, e))

\* the filter with the `seen` set: the first occurrence of each token is kept
RECURSIVE Dedupe(_, _)
Dedupe(ts, seen) ==
    IF ts = <<>> THEN <<>>
    ELSE IF ts[1] \in seen THEN Dedupe(Tail(ts), seen)
    ELSE <<ts[1]>> \o Dedupe(Tail(ts), seen \cup {ts[1]})

\* ts.join(sep)
RECURSIVE Join(_, _)
Join(ts, sep) ==
    IF ts = <<>> THEN <<>>
    ELSE IF Len(ts) = 1 THEN ts[1]
    ELSE ts[1] \o sep \o Join(Tail(ts), sep)

\* s.trim()
RECURSIVE TrimLeft(_)
TrimLeft(s) == IF s # <<>> /\ IsSpace(s[1]) THEN TrimLeft(Tail(s)) ELSE s
RECURSIVE TrimRight(_)
TrimRight(s) ==
    IF s # <<>> /\ IsSpace(s[Len(s)]) THEN TrimRight(SubSeq(s, 1, Len(s) - 1)) ELSE s
Trim(s) == TrimRight(TrimLeft(s))

-----------------------------------------------------------------------------
(* normalizeTitle *)

\* title.replace(/\|.*$/, '')
CutAtPipe(s) ==
    IF "|" \in Range(s)
    THEN LET i == CHOOSE j \in 1..Len(s) : s[j] = "|" /\ \A k \in 1..(j - 1) : s[k] # "|"
         IN  SubSeq(s, 1, i - 1)
    ELSE s

TldSuffixes == << <<".","c","o","m">>, <<".","i","n">>, <<".","c","o">>,
                  <<".","o","r","g">>, <<".","n","e","t">> >>

\* domain.replace(/^www\./, '').replace(/\.(com|in|co|org|net)$/, '')
SiteToken(domain) ==
    LET d == IF StartsWith(domain, <<"w","w","w",".">>) THEN Drop(domain, 4) ELSE domain
        hits == {k \in 1..Len(TldSuffixes) : EndsWith(d, TldSuffixes[k])}
    IN  IF hits = {} THEN d
        ELSE LET k == CHOOSE j \in hits : TRUE
             IN  SubSeq(d, 1, Len(d) - Len(TldSuffixes[k]))

boilerplate == <<
    <<"p","r","i","c","e">>, <<"i","m","a","g","e","s">>, <<"m","i","l","e","a","g","e">>,
    <<"s","p","e","c","s">>, <<"f","e","a","t","u","r","e","s">>,
    <<"o","v","e","r","v","i","e","w">>, <<"r","e","v","i","e","w">>,
    <<"r","e","v","i","e","w","s">>, <<"n","e","w","s">>, <<"b","l","o","g","s">>,
    <<"b","l","o","g">>, <<"u","p","d","a","t","e","d">>, <<"l","a","t","e","s","t">>,
    <<"m","o","d","e","l">>, <<"i","n","d","i","a">>, <<"o","f","f","i","c","i","a","l">>,
    <<"o","n","-","r","o","a","d">>, <<"o","n"," ","r","o","a","d">> >>

\* boilerplate.forEach(w => title = title.replace(/\bw\b/g, ''))
RECURSIVE RemoveBoilerplate(_, _)
RemoveBoilerplate(s, k) ==
    IF k > Len(boilerplate) THEN s
    ELSE RemoveBoilerplate(RemoveWord(s, boilerplate[k]), k + 1)

\* the characters of the class in line 59 (the bullet is stored as three characters)
SeparatorChars == {"-", "|", "â", "€", "¢", ":", "/"}

ReplaceSeparators(s) == [i \in 1..Len(s) |-> IF s[i] \in SeparatorChars THEN " " ELSE s[i]]

\* A capitalisation of the first character of the title only
CapitalizeFirstOnly(s) ==
    [i \in 1..Len(s) |-> IF i = 1 THEN toUpperChar(s[i]) ELSE s[i]]

\* title.replace(/\b\w/g, c => c.toUpperCase())
Capitalize(s) ==
    [i \in 1..Len(s) |->
        IF IsWordChar(s[i]) /\ (i = 1 \/ ~IsWordChar(s[i-1]))
        THEN toUpperChar(s[i]) ELSE s[i]]

normalizeTitle(raw, domain) ==
    IF ~Truthy(raw) THEN Null
    ELSE LET t1 == CutAtPipe(toLowerCase(raw))
             t2 == IF Truthy(domain) THEN RemoveAll(t1, SiteToken(domain)) ELSE t1
             t3 == RemoveBoilerplate(t2, 1)
             t4 == ReplaceSeparators(t3)
             t5 == Join(Dedupe(Tokens(t4), {}), <<" ">>)
             t6 == Trim(t5)
             t7 == Capitalize(t6)
         IN  IF t6 = <<>> THEN Null
             ELSE IF Len(t7) < 3 THEN Null
             ELSE t7

-----------------------------------------------------------------------------
(* URLs.  new URL(url) is modelled for the URLs of the model: a scheme      *)
(* http:// or https://, a host, and a path without query or fragment.       *)

HttpScheme == <<"h","t","t","p",":","/","/">>
HttpsScheme == <<"h","t","t","p","s",":","/","/">>

\* url.replace(/^https?:\/\//, '')
StripScheme(url) ==
    IF StartsWith(url, HttpsScheme) THEN Drop(url, Len(HttpsScheme))
    ELSE IF StartsWith(url, HttpScheme) THEN Drop(url, Len(HttpScheme))
    ELSE url

\* the length of the longest prefix of s without the character c
RECURSIVE PrefixLen(_, _)
PrefixLen(s, c) == IF s = <<>> \/ s[1] = c THEN 0 ELSE 1 + PrefixLen(Tail(s), c)

\* whether new URL(url) returns (TRUE) or throws (FALSE)
UrlParses(url) ==
    /\ url # Null
    /\ StartsWith(url, HttpsScheme) \/ StartsWith(url, HttpScheme)
    /\ PrefixLen(StripScheme(url), "/") > 0

\* new URL(url).hostname
Hostname(url) ==
    LET rest == StripScheme(url)
    IN  toLowerCase(SubSeq(rest, 1, PrefixLen(rest, "/")))

\* new URL(url).pathname
Pathname(url) ==
    LET rest == StripScheme(url)
        p == Drop(rest, PrefixLen(rest, "/"))
    IN  IF p = <<>> THEN <<"/">> ELSE p

\* s.split(c).filter(Boolean)
RECURSIVE SplitNonEmpty(_, _)
SplitNonEmpty(s, c) ==
    IF s = <<>> THEN <<>>
    ELSE IF s[1] = c THEN SplitNonEmpty(Tail(s), c)
    ELSE LET n == PrefixLen(s, c)
         IN  <<SubSeq(s, 1, n)>> \o SplitNonEmpty(Drop(s, n), c)

getDomain(url) ==
    IF UrlParses(url) THEN RemoveFirst(Hostname(url), <<"w","w","w",".">>)
    ELSE IF Truthy(url) THEN <<"l","i","n","k">>
    ELSE <<"i","m","a","g","e">>

FaviconPrefix == <<"h","t","t","p","s",":","/","/","w","w","w",".","g","o","o","g","l","e",".","c","o","m","/","s","2","/","f","a","v","i","c","o","n","s","?","d","o","m","a","i","n","=">>
FaviconSuffix == <<"&","s","z","=","6","4">>

getFavicon(url) ==
    IF ~Truthy(url) THEN Null
    ELSE IF UrlParses(url) THEN FaviconPrefix \o Hostname(url) \o FaviconSuffix
    ELSE Null

-----------------------------------------------------------------------------
(* inferTitleFromUrl *)

ignore == <<
    <<"b","l","o","g","s">>,
    <<"b","l","o","g">>,
    <<"n","e","w","s">>,
    <<"r","e","v","i","e","w","s">>,
    <<"c","o","l","o","r","s">>,
    <<"s","p","e","c","s">>,
    <<"g","a","l","l","e","r","y">>,
    <<"i","m","a","g","e","s">>,
    <<"p","r","i","c","e">>,
    <<"p","o","s","t","s">>,
    <<"c","a","t","e","g","o","r","y">>,
    <<"c","a","t","e","g","o","r","i","e","s">>,
    <<"t","a","g">>,
    <<"t","a","g","s">> >>

\* s.replace(/[-_]/g, ' ')
ReplaceDashes(s) == [i \in 1..Len(s) |-> IF s[i] \in {"-", "_"} THEN " " ELSE s[i]]

\* An inferTitleFromUrl that compares the segments with the list as they are
inferTitleFromUrlCaseSensitive(url) ==
    IF ~UrlParses(url) THEN Null
    ELSE LET parts == SelectSeq(SplitNonEmpty(Pathname(url), "/"),
                                LAMBDA p : p \notin Range(ignore))
             n == Len(parts)
         IN  IF n >= 2
             THEN normalizeTitle(ReplaceDashes(parts[n-1] \o <<" ">> \o parts[n]), Hostname(url))
             ELSE IF n = 1
             THEN normalizeTitle(ReplaceDashes(parts[1]), Hostname(url))
             ELSE Null

inferTitleFromUrl(url) ==
    IF ~UrlParses(url) THEN Null
    ELSE LET parts == SelectSeq(SplitNonEmpty(Pathname(url), "/"),
                                LAMBDA p : toLowerCase(p) \notin Range(ignore))
             n == Len(parts)
         IN  IF n >= 2
             THEN normalizeTitle(ReplaceDashes(parts[n-1] \o <<" ">> \o parts[n]), Hostname(url))
             ELSE IF n = 1
             THEN normalizeTitle(ReplaceDashes(parts[1]), Hostname(url))
             ELSE Null

-----------------------------------------------------------------------------
(* Identifier resolution.                                                   *)
(*                                                                          *)
(* normalizeTitle ... enrichUrlMetadata are declared at the top level of    *)
(* the file (lines 7-416).  data, setData, METADATA_PROXY, pendingUrlsRef,  *)
(* addItem and updateItem are declared by const inside App() (lines         *)
(* 445-1287): they are bound in App's handlers and nowhere else.            *)
(* Evaluating an unbound identifier throws a ReferenceError.                *)

\* the identifiers bound at the top level of the file, with the browser's
ModuleScope ==
    {"generateId", "getDomain", "getFavicon", "generateGradient", "normalizeTitle",
     "inferTitleFromUrl", "getInitial", "tryFetchHtml", "loadImageWithTimeout",
     "fetchJsonWithTimeout", "fetchPageMetadata", "extractBestTitle", "fetchTitleQuick",
     "fetchImageQuick", "enrichUrlMetadata", "Button", "Input", "App",
     "React", "useState", "useEffect", "useRef",
     "localStorage", "JSON", "fetch", "setTimeout", "clearTimeout", "URL", "Image",
     "DOMParser", "AbortController", "Promise", "Date", "Math", "String", "Array",
     "RegExp", "Set", "Error", "encodeURIComponent", "window", "navigator", "document"}

\* the identifiers App() declares for its own body
AppScope ==
    {"data", "setData", "METADATA_PROXY", "pendingUrlsRef", "addBucket", "addItem",
     "updateItem", "archiveItem", "restoreItem", "deleteItemPermanently", "deleteBucket",
     "reorderItems", "QuickCapture", "setModalMode", "setFlashMessage"}

\* the names a function at the top level can evaluate: its parameters, the
\* const of the blocks that enclose the place, and the top level
Bound(name, locals) == name \in ModuleScope \cup locals

\* the const of the try block of enrichUrlMetadata (lines 351-356): they are
\* scoped to that block, not to the catch block that follows it
EnrichTryLocals == {"id", "url", "cacheKey", "cache", "item", "attempts"}
EnrichCatchLocals == {"id", "url", "e"}

-----------------------------------------------------------------------------
(* The quick probes and the resolution, as this program runs them. *)

\* A probe whose exception leaves the function
fetchTitleQuickRejecting(url) == [settles |-> "rejected", value |-> Null]

\* fetchTitleQuick (279-304), as the way its promise settles: line 282
\* evaluates METADATA_PROXY inside the outer try; the ReferenceError is
\* swallowed by the catch of line 302 and line 303 returns null.  No request
\* is made.
fetchTitleQuick(url) ==
    CASE ~Bound("METADATA_PROXY", {"url", "timeout"}) -> [settles |-> "fulfilled", value |-> Null]

\* fetchImageQuick (307-347): the same at line 309, caught at line 345
fetchImageQuick(url) ==
    CASE ~Bound("METADATA_PROXY", {"url", "timeout"}) -> [settles |-> "fulfilled", value |-> Null]

\* line 853: [quickTitle, quickImage] = await Promise.all([...]) inside a try
\* whose catch leaves both null
AwaitProbes(title, image) ==
    IF title.settles = "fulfilled" /\ image.settles = "fulfilled"
    THEN <<title.value, image.value>>
    ELSE <<Null, Null>>

\* fetchPageMetadata (150-247): line 153 throws in the outer try; the catch of
\* line 198 runs the fallback, whose line 202 throws again inside the try of
\* line 200; the catch of line 242 returns null.  No request is made.
fetchPageMetadata(url) ==
    CASE ~Bound("METADATA_PROXY", {"url"}) -> Null

\* An enrichUrlMetadata that resolves a title and writes it whatever the
\* item's flags say
enrichUrlMetadataOverwritingTitle(id, url) ==
    [settles |-> "fulfilled",
     updates |-> <<[id |-> id, updates |-> [title |-> <<"F","o","o">>, metaStatus |-> "done"]]>>,
     timeouts |-> {}, stores |-> <<>>]

\* An enrichUrlMetadata that marks the item failed when the resolution fails
enrichUrlMetadataMarkingFailed(id, url) ==
    [settles |-> "fulfilled",
     updates |-> <<[id |-> id, updates |-> [metaStatus |-> "failed", metaAttempts |-> 1]]>>,
     timeouts |-> {[id |-> id, delay |-> 2000]}, stores |-> <<>>]

\* An enrichUrlMetadata that stores a cache holding its own URL only
enrichUrlMetadataRewritingCache(id, url) ==
    [settles |-> "fulfilled", updates |-> <<>>, timeouts |-> {},
     stores |-> <<[u \in {<<"h","t","t","p",":","/","/","a",".","i","n","/","x","/","h","o","n","d","a","-","c","i","t","y">>,
                          <<"w","w","w",".","c",".","c","o","m","/","z">>} |->
                    IF u = url THEN [title |-> Null, image |-> Null, site |-> <<>>]
                    ELSE [absent |-> TRUE]]>>]

\* One call enrichUrlMetadata(id, url) (349-416), as the calls of updateItem,
\* setTimeout and localStorage.setItem it makes and the way its promise settles.
\* Line 352 parses the cache.  Line 355 evaluates data: a ReferenceError,
\* caught at line 411.  Line 412 evaluates attempts, a const of the try block:
\* a second ReferenceError, thrown out of the catch block, which rejects the
\* promise before line 413 calls updateItem.
enrichUrlMetadata(id, url) ==
    CASE ~Bound("data", EnrichTryLocals) ->
        CASE ~Bound("attempts", EnrichCatchLocals) ->
            [settles |-> "rejected", updates |-> <<>>, timeouts |-> {}, stores |-> <<>>]

-----------------------------------------------------------------------------
(* The inputs of the model *)

\* a URL with a two-segment path, an input without a scheme, which
\* new URL() rejects, and a URL of an image file
UrlA == <<"h","t","t","p",":","/","/","a",".","i","n","/","x","/","h","o","n","d","a","-","c","i","t","y">>
UrlB == <<"h","t","t","p","s",":","/","/","w","w","w",".","b",".","c","o","/","b","l","o","g","/","p",".","p","n","g">>
UrlC == <<"w","w","w",".","c",".","c","o","m","/","z">>
Urls == {UrlA, UrlC}

\* what FileReader.readAsDataURL hands to setPastedImage (line 810)
PastedImage == <<"d","a","t","a",":","i","m","a","g","e","/","p","n","g",";","b","a","s","e","6","4",",","A","A">>

Buckets == {"b1", "b2"}

\* what the user types into the title input
TypedTitle == <<"M","i","n","e">>

UntitledLink == <<"U","n","t","i","t","l","e","d"," ","l","i","n","k">>
PastedImageTitle == <<"P","a","s","t","e","d"," ","I","m","a","g","e">>

\* an image URL as a page or the proxy might name it
PageImage == <<"h","t","t","p","s",":","/","/","a",".","i","n","/","i",".","j","p","g">>
PageTitle == <<"F","o","o">>

\* What the network would answer to a resolution of any URL: nothing
\* ("down"), a page without title and image ("bare"), or a page with both
\* whose image loads ("rich") or fails the size check ("small").
Worlds == {"down", "bare", "rich", "small"}

-----------------------------------------------------------------------------
(* addItem (lines 622-683), in the pieces the actions below put together *)

\* Date.now() - existing.createdAt < 10000 (line 637)
DuplicateWindowMs == 10000

Ids == 0..MaxItems

\* what data.items.find gives when no item satisfies the predicate
NoItem == [id |-> -1]

\* data.items.find(i => ...): the first item of `its` among those at the
\* positions `hits`, where the predicate holds
FindItem(its, hits) ==
    IF hits = {} THEN NoItem
    ELSE its[CHOOSE k \in hits : \A j \in hits : k <= j]

\* line 623
IsUrl(content, type) == type = "url" \/ StartsWith(content, <<"h","t","t","p">>)

\* A duplicate check without the ten seconds of line 637
ExistingItemWithoutWindow(dataItems, pending, content, targetBucketId, type, clock) ==
    IF ~IsUrl(content, type) THEN NoItem
    ELSE LET found == FindItem(dataItems,
                               {k \in 1..Len(dataItems) :
                                   /\ dataItems[k].url = content
                                   /\ dataItems[k].bucketId = targetBucketId})
         IN  IF found = NoItem THEN NoItem
             ELSE IF content \in pending \/ found.metaStatus = "pending" THEN found
             ELSE NoItem

\* Lines 626-638: the item whose id addItem returns instead of creating one,
\* or NoItem.  dataItems is data.items of the render the handler closes over.
ExistingItem(dataItems, pending, content, targetBucketId, type, clock) ==
    IF ~IsUrl(content, type) THEN NoItem
    ELSE LET found == FindItem(dataItems,
                               {k \in 1..Len(dataItems) :
                                   /\ dataItems[k].url = content
                                   /\ dataItems[k].bucketId = targetBucketId})
         IN  IF found = NoItem THEN NoItem
             ELSE IF content \in pending THEN found
             ELSE IF clock - found.createdAt < DuplicateWindowMs \/ found.metaStatus = "pending"
                  THEN found
             ELSE NoItem

\* lines 645-647
InitialTitle(content, type, initialTitle) ==
    IF IsUrl(content, type)
    THEN LET site == getDomain(content)
             inferredTitle == OrElse(initialTitle, inferTitleFromUrl(content))
             normalizedInferred == normalizeTitle(OrElse(inferredTitle, <<>>), site)
         IN  OrElse(normalizedInferred, UntitledLink)
    ELSE PastedImageTitle

ImageExtensions == << <<".","j","p","e","g">>, <<".","j","p","g">>, <<".","g","i","f">>, <<".","p","n","g">>, <<".","w","e","b","p">> >>

\* content.match(/\.(jpeg|jpg|gif|png|webp)$/i)
HasImageExtension(content) ==
    \E k \in 1..Len(ImageExtensions) : EndsWith(toLowerCase(content), ImageExtensions[k])

\* line 659
InitialImage(content, type, initialImage) ==
    IF type = "image" THEN content
    ELSE OrElse(initialImage, IF HasImageExtension(content) THEN content ELSE Null)

\* A status that takes no account of the title and image addItem is given
InitialMetaStatusIgnoringGiven(content, type, initialTitle, initialImage) ==
    IF IsUrl(content, type) THEN "pending" ELSE "done"

\* lines 651 and 665
InitialMetaStatus(content, type, initialTitle, initialImage) ==
    LET isUrl == IsUrl(content, type)
        initialMetaDone == isUrl /\ (Truthy(initialTitle) \/ Truthy(initialImage))
    IN  IF initialMetaDone THEN "done" ELSE IF isUrl THEN "pending" ELSE "done"

\* lines 652-669; the flags a new item does not carry read as false
NewItem(id, content, targetBucketId, type, initialTitle, initialImage, clock) ==
    LET isUrl == IsUrl(content, type)
        site == IF isUrl THEN getDomain(content) ELSE <<>>
    IN  [id |-> id,
         bucketId |-> targetBucketId,
         url |-> IF isUrl THEN content ELSE <<>>,
         title |-> InitialTitle(content, type, initialTitle),
         domain |-> site,
         image |-> InitialImage(content, type, initialImage),
         notes |-> <<>>,
         price |-> <<>>,
         status |-> "saved",
         isArchived |-> FALSE,
         visitCount |-> 0,
         metaStatus |-> InitialMetaStatus(content, type, initialTitle, initialImage),
         metaAttempts |-> 0,
         site |-> site,
         createdAt |-> clock,
         userEditedTitle |-> FALSE,
         userEditedImage |-> FALSE,
         enrichFlash |-> FALSE]

\* An updateItem that replaces the item with that id by a new one, which
\* carries the updates and nothing else of the old item
updateItemReplacing(its, id, updates) ==
    [k \in 1..Len(its) |->
        IF its[k].id = id
        THEN LET fresh == NewItem(id, its[k].url, its[k].bucketId, "url", Null, Null,
                                  its[k].createdAt)
             IN  [f \in DOMAIN fresh |->
                     IF f \in DOMAIN updates THEN updates[f] ELSE fresh[f]]
        ELSE its[k]]

\* updateItem (685-690): the fields of `updates` replace those of the item
\* with that id; an id that is not there changes nothing
updateItem(its, id, updates) ==
    [k \in 1..Len(its) |->
        IF its[k].id = id
        THEN [f \in DOMAIN its[k] |-> IF f \in DOMAIN updates THEN updates[f] ELSE its[k][f]]
        ELSE its[k]]

\* the calls of updateItem one call of enrichUrlMetadata makes, in order
RECURSIVE ApplyUpdates(_, _)
ApplyUpdates(its, calls) ==
    IF calls = <<>> THEN its
    ELSE ApplyUpdates(updateItem(its, calls[1].id, calls[1].updates), Tail(calls))

\* deleteItemPermanently (701-703)
deleteItemPermanently(its, id) == SelectSeq(its, LAMBDA i : i.id # id)

-----------------------------------------------------------------------------
(* What the program starts from *)

\* The stored database capture_app_db_v5 (line 448): none, or one left by
\* an earlier session with an item whose metadata had failed, after one
\* attempt or after three.
StoredItem(attempts) ==
    [NewItem(0, UrlA, "b1", "url", Null, getFavicon(UrlA), 0)
        EXCEPT !.metaStatus = "failed", !.metaAttempts = attempts]
StoredDatabases == {<<>>, <<StoredItem(1)>>, <<StoredItem(3)>>}

\* The stored cache meta_cache_v1 (line 352), as cache[url] for each URL of
\* the model: an earlier session left an entry for UrlA and none for the
\* other URLs
CacheEntry(url) == [title |-> PageTitle, image |-> PageImage, site |-> getDomain(url)]
NoEntry == [absent |-> TRUE]
StoredCache == [u \in Urls \cup {UrlB} |-> IF u = UrlA THEN CacheEntry(u) ELSE NoEntry]

\* localStorage.setItem(cacheKey, JSON.stringify(cache)) (line 381): each
\* call replaces the whole stored cache, so the last one stays
Stored(old, stores) == IF stores = <<>> THEN old ELSE stores[Len(stores)]

-----------------------------------------------------------------------------
(* The state *)

VARIABLES
    items,        \* data.items: the state of App, every queued update applied
    view,         \* the committed render: the data.items its handlers close over
                  \* and QuickCapture's isSubmitting
    pendingUrls,  \* pendingUrlsRef.current
    cache,        \* localStorage meta_cache_v1
    timers,       \* the setTimeout callbacks of enrichUrlMetadata not yet run
    jobs,         \* the promise reactions waiting to run, in order
    now,          \* Date.now()
    nextId,       \* the next id generateId gives
    world,        \* what the network would answer to a resolution
    resolved,     \* history: a call of fetchPageMetadata made on its own, and its result
    settled,      \* history: for each id, its calls of enrichUrlMetadata: how each
                  \* settled, and whether the item's title was user-edited by then
    created,      \* history: for each id, what addItem was given and made
    retried,      \* history: for each id, how often its retry button was pressed
    lastAdd,      \* history: the last call of addItem and what it returned
    loader,       \* one call of loadImageWithTimeout: its closure and its promise
    unit          \* one call of a function made on its own: its arguments and its result

vars == <<items, view, pendingUrls, cache, timers, jobs, now, nextId, world,
          resolved, settled, created, retried, lastAdd, loader, unit>>

NoAdd == [returned |-> -1, fresh |-> FALSE]
NotCreated == [by |-> "nobody"]
NotResolved == [url |-> Null]
NoLoader == [called |-> FALSE]
NoUnit == [fn |-> "none"]

\* the render that commits the state as it is; a new render of App mounts
\* QuickCapture anew (it is declared inside App, line 786), so isSubmitting
\* starts from false (line 792)
Commit(its) == [items |-> its, isSubmitting |-> FALSE]

Init ==
    /\ items \in StoredDatabases
    /\ view = Commit(items)
    /\ pendingUrls = {}
    /\ cache = StoredCache
    /\ timers = {}
    /\ jobs = <<>>
    /\ now = 0
    /\ nextId = 1
    /\ world = "down"
    /\ resolved = NotResolved
    /\ settled = [i \in Ids |-> <<>>]
    /\ created = [i \in Ids |-> NotCreated]
    /\ retried = [i \in Ids |-> 0]
    /\ lastAdd = NoAdd
    /\ loader = NoLoader
    /\ unit = NoUnit

\* an event handler runs when no promise reaction is waiting
Idle == jobs = <<>>

RenderedIds == {view.items[k].id : k \in 1..Len(view.items)}
ItemOf(its, id) == FindItem(its, {k \in 1..Len(its) : its[k].id = id})
RenderedItem(id) == ItemOf(view.items, id)
\* item.metaStatus, or "none" when the item is not in data.items
StatusOf(its, id) == IF ItemOf(its, id) = NoItem THEN "none" ELSE ItemOf(its, id).metaStatus

-----------------------------------------------------------------------------
(* The calls the handlers make *)

\* One call addItem(content, targetBucketId, type, initialTitle, initialImage)
\* (622-683) from a handler of the committed render, whose data.items is
\* view.items.  `queue` is the reactions that wait once the call returns; the
\* reaction of .finally (line 678) joins them at once, since the promise of
\* enrichUrlMetadata is settled when the call returns.  `by` is the caller and
\* `quick` what its two probes gave it: both go to the history only.
CallAddItem(content, targetBucketId, type, initialTitle, initialImage, queue, by, quick) ==
    LET existing == ExistingItem(view.items, pendingUrls, content, targetBucketId, type, now)
        isUrl == IsUrl(content, type)
        newItem == NewItem(nextId, content, targetBucketId, type, initialTitle, initialImage, now)
        call == enrichUrlMetadata(newItem.id, content)
    IN  IF existing # NoItem
        THEN /\ lastAdd' = [returned |-> existing.id, fresh |-> FALSE]
             /\ jobs' = queue
             /\ UNCHANGED <<items, pendingUrls, cache, timers, nextId, settled, created>>
        ELSE /\ lastAdd' = [returned |-> newItem.id, fresh |-> TRUE]
             /\ nextId' = nextId + 1
             /\ created' = [created EXCEPT ![newItem.id] =
                               [by |-> by, quickTitle |-> quick[1], quickImage |-> quick[2],
                                initialTitle |-> initialTitle,
                                initialImage |-> initialImage,
                                metaStatus |-> newItem.metaStatus, isUrl |-> isUrl]]
             /\ IF isUrl
                THEN \* line 641, line 671, then line 678
                     /\ pendingUrls' = pendingUrls \cup {content}
                     /\ items' = ApplyUpdates(<<newItem>> \o items, call.updates)
                     /\ timers' = timers \cup call.timeouts
                     /\ cache' = Stored(cache, call.stores)
                     /\ settled' = [settled EXCEPT ![newItem.id] =
                                       Append(@, [outcome |-> call.settles, edited |-> FALSE])]
                     /\ jobs' = Append(queue, [kind |-> "finally", url |-> content])
                ELSE /\ items' = <<newItem>> \o items
                     /\ jobs' = queue
                     /\ UNCHANGED <<pendingUrls, cache, timers, settled>>

-----------------------------------------------------------------------------
(* The user's events *)

\* QuickCapture.handleSubmit with a link typed into the capture sheet
\* (834-840 and 850-853), up to its await: isSubmitting is set and rendered,
\* both probes have been called and have returned their promises
SubmitUrl(inputValue, selectedBucketId) ==
    /\ Idle
    /\ ~view.isSubmitting
    /\ \/ nextId <= MaxItems
       \/ ExistingItem(view.items, pendingUrls, inputValue, selectedBucketId, "url", now) # NoItem
    /\ view' = [view EXCEPT !.isSubmitting = TRUE]
    /\ jobs' = <<[kind |-> "handleSubmit", inputValue |-> inputValue,
                  selectedBucketId |-> selectedBucketId,
                  quickTitle |-> fetchTitleQuick(inputValue),
                  quickImage |-> fetchImageQuick(inputValue)]>>
    /\ UNCHANGED <<items, pendingUrls, cache, timers, now, nextId, world,
                   resolved, settled, created, retried, lastAdd, loader, unit>>

\* handleSubmit after its await (855-876): the item is added; the updates
\* it queues (the item, the closed sheet, isSubmitting) wait for a render
ResumeSubmit ==
    /\ jobs # <<>>
    /\ Head(jobs).kind = "handleSubmit"
    /\ LET j == Head(jobs)
           quick == AwaitProbes(j.quickTitle, j.quickImage)
           fallbackImage == OrElse(quick[2], getFavicon(j.inputValue))
       IN  CallAddItem(j.inputValue, j.selectedBucketId, "url", quick[1], fallbackImage,
                       Tail(jobs), "handleSubmit", quick)
    /\ UNCHANGED <<view, now, world, resolved, retried, loader, unit>>

\* A reaction of .finally that leaves the pending set as it is
FinallyWithoutDelete ==
    /\ jobs # <<>>
    /\ Head(jobs).kind = "finally"
    /\ jobs' = Tail(jobs)
    /\ UNCHANGED <<items, view, pendingUrls, cache, timers, now, nextId, world,
                   resolved, settled, created, retried, lastAdd, loader, unit>>

\* A reaction of .finally that deletes the URL only when no other resolution
\* of that URL is still running
FinallyClearWhenLast ==
    /\ jobs # <<>>
    /\ Head(jobs).kind = "finally"
    /\ pendingUrls' = IF \E k \in 2..Len(jobs) : jobs[k].url = Head(jobs).url
                      THEN pendingUrls
                      ELSE pendingUrls \ {Head(jobs).url}
    /\ jobs' = Tail(jobs)
    /\ UNCHANGED <<items, view, cache, timers, now, nextId, world,
                   resolved, settled, created, retried, lastAdd, loader, unit>>

\* the reaction of .finally (lines 678-681)
FinallyClear ==
    /\ jobs # <<>>
    /\ Head(jobs).kind = "finally"
    /\ pendingUrls' = pendingUrls \ {Head(jobs).url}
    /\ jobs' = Tail(jobs)
    /\ UNCHANGED <<items, view, cache, timers, now, nextId, world,
                   resolved, settled, created, retried, lastAdd, loader, unit>>

\* handleSubmit with a pasted image (842-848): it runs to its end at once
SubmitImage(selectedBucketId) ==
    /\ Idle
    /\ ~view.isSubmitting
    /\ nextId <= MaxItems
    /\ CallAddItem(PastedImage, selectedBucketId, "image", Null, Null, jobs,
                   "handleSubmit", <<Null, Null>>)
    /\ view' = Commit(items')
    /\ UNCHANGED <<now, world, resolved, retried, loader, unit>>

\* the title input of the item view (line 1234)
EditTitle(id) ==
    /\ Idle
    /\ id \in RenderedIds
    /\ items' = updateItem(items, id, [title |-> TypedTitle, userEditedTitle |-> TRUE])
    /\ items' # items
    /\ view' = Commit(items')
    /\ UNCHANGED <<pendingUrls, cache, timers, jobs, now, nextId, world,
                   resolved, settled, created, retried, lastAdd, loader, unit>>

\* A retry button that starts the count of attempts again
ManualRetryResettingAttempts(id) ==
    /\ Idle
    /\ id \in RenderedIds
    /\ RenderedItem(id).metaStatus = "failed"
    /\ items' = updateItem(items, id, [metaStatus |-> "pending", metaAttempts |-> 0])
    /\ settled' = [settled EXCEPT ![id] =
                      Append(@, [outcome |-> "rejected",
                                 edited |-> ItemOf(items, id).userEditedTitle])]
    /\ retried' = [retried EXCEPT ![id] = @ + 1]
    /\ view' = Commit(items')
    /\ UNCHANGED <<pendingUrls, cache, timers, jobs, now, nextId, world, resolved,
                   created, lastAdd, loader, unit>>

\* the retry button, shown on an item whose metaStatus is failed (1132-1136)
ManualRetry(id) ==
    /\ Idle
    /\ id \in RenderedIds
    /\ RenderedItem(id).metaStatus = "failed"
    /\ LET item == RenderedItem(id)
           call == enrichUrlMetadata(item.id, item.url)
           marked == updateItem(items, item.id,
                                [metaStatus |-> "pending",
                                 metaAttempts |-> item.metaAttempts + 1])
       IN  /\ items' = ApplyUpdates(marked, call.updates)
           /\ timers' = timers \cup call.timeouts
           /\ cache' = Stored(cache, call.stores)
           /\ settled' = [settled EXCEPT ![id] =
                             Append(@, [outcome |-> call.settles,
                                        edited |-> ItemOf(items, id).userEditedTitle])]
    /\ retried' = [retried EXCEPT ![id] = @ + 1]
    /\ view' = Commit(items')
    /\ UNCHANGED <<pendingUrls, jobs, now, nextId, world, resolved, created, lastAdd, loader, unit>>

\* React renders the updates a promise reaction queued
Render ==
    /\ Idle
    /\ view # Commit(items)
    /\ view' = Commit(items)
    /\ UNCHANGED <<items, pendingUrls, cache, timers, jobs, now, nextId, world,
                   resolved, settled, created, retried, lastAdd, loader, unit>>

\* time passes between two events
Tick ==
    /\ Idle
    /\ now < MaxClock * TickMs
    /\ now' = now + TickMs
    /\ UNCHANGED <<items, view, pendingUrls, cache, timers, jobs, nextId, world,
                   resolved, settled, created, retried, lastAdd, loader, unit>>

Next ==
    \/ \E u \in Urls, b \in Buckets : SubmitUrl(u, b)
    \/ ResumeSubmit
    \/ FinallyClear
    \/ \E b \in Buckets : SubmitImage(b)
    \/ \E id \in Ids : EditTitle(id)
    \/ \E id \in Ids : ManualRetry(id)
    \/ Render
    \/ Tick

Spec == Init /\ [][Next]_vars

\* the event loop runs every waiting promise reaction
FairSpec == Spec /\ WF_vars(FinallyClear)

-----------------------------------------------------------------------------
(* The functions called on their own, on inputs drawn at the start *)

\* An item as an earlier session left it, still pending
PendingItem(url, attempts, edited) ==
    [NewItem(0, url, "b1", "url", Null, Null, 0)
        EXCEPT !.metaAttempts = attempts,
               !.userEditedTitle = edited,
               !.title = IF edited THEN TypedTitle ELSE @]
PendingDatabases ==
    {<<>>} \cup {<<PendingItem(u, a, e)>> : u \in {UrlA, UrlB}, a \in {0, 2}, e \in BOOLEAN}

\* the titles and images a caller may hand to addItem
GivenTitles == {Null, PageTitle}
GivenImages == {Null, PageImage}

\* a database whose item is failed after one attempt, as the callback of a
\* retry timer would find it
FailedDatabases == {<<StoredItem(1)>>}

CallInit ==
    /\ items \in PendingDatabases \cup FailedDatabases
    /\ view = Commit(items)
    /\ pendingUrls = {}
    /\ cache = StoredCache
    /\ timers = {}
    /\ jobs = <<>>
    /\ now = 0
    /\ nextId = 1
    /\ world \in Worlds
    /\ resolved = NotResolved
    /\ settled = [i \in Ids |-> <<>>]
    /\ created = [i \in Ids |-> NotCreated]
    /\ retried = [i \in Ids |-> 0]
    /\ lastAdd = NoAdd
    /\ loader = NoLoader
    /\ unit = NoUnit

\* one call fetchPageMetadata(url) (150-247)
CallFetchPageMetadata(url) ==
    /\ Idle
    /\ resolved = NotResolved
    /\ resolved' = [url |-> url, meta |-> fetchPageMetadata(url)]
    /\ UNCHANGED <<items, view, pendingUrls, cache, timers, jobs, now, nextId, world,
                   settled, created, retried, lastAdd, loader, unit>>

\* one call enrichUrlMetadata(id, url) (349-416) for an item of the database
CallEnrichUrlMetadata(id) ==
    /\ Idle
    /\ id \in RenderedIds
    /\ settled[id] = <<>>
    /\ LET item == ItemOf(items, id)
           call == enrichUrlMetadata(item.id, item.url)
       IN  /\ items' = ApplyUpdates(items, call.updates)
           /\ timers' = timers \cup call.timeouts
           /\ cache' = Stored(cache, call.stores)
           /\ settled' = [settled EXCEPT ![id] =
                             Append(@, [outcome |-> call.settles,
                                        edited |-> item.userEditedTitle])]
    /\ view' = Commit(items')
    /\ UNCHANGED <<pendingUrls, jobs, now, nextId, world, resolved,
                   created, retried, lastAdd, loader, unit>>

\* the callback the failure paths hand to setTimeout (lines 408 and 414),
\* () => enrichUrlMetadata(id, url), run for an item that is failed
RetryCallback(id) ==
    /\ Idle
    /\ id \in RenderedIds
    /\ settled[id] = <<>>
    /\ LET item == ItemOf(items, id)
           call == enrichUrlMetadata(item.id, item.url)
       IN  /\ item.metaStatus = "failed"
           /\ items' = ApplyUpdates(items, call.updates)
           /\ timers' = timers \cup call.timeouts
           /\ cache' = Stored(cache, call.stores)
           /\ settled' = [settled EXCEPT ![id] =
                             Append(@, [outcome |-> call.settles,
                                        edited |-> item.userEditedTitle])]
    /\ view' = Commit(items')
    /\ UNCHANGED <<pendingUrls, jobs, now, nextId, world, resolved,
                   created, retried, lastAdd, loader, unit>>

\* one call addItem(content, targetBucketId, 'url', initialTitle, initialImage)
\* (622-683), rendered when it returns
CallAddItemUrl(content, targetBucketId, initialTitle, initialImage) ==
    /\ Idle
    /\ nextId <= MaxItems
    /\ CallAddItem(content, targetBucketId, "url", initialTitle, initialImage, jobs,
                   "caller", <<initialTitle, initialImage>>)
    /\ view' = Commit(items')
    /\ UNCHANGED <<now, world, resolved, retried, loader, unit>>

\* the delete button (line 1174): deleteItemPermanently(id), rendered
DeleteItem(id) ==
    /\ Idle
    /\ id \in RenderedIds
    /\ items' = deleteItemPermanently(items, id)
    /\ view' = Commit(items')
    /\ UNCHANGED <<pendingUrls, cache, timers, jobs, now, nextId, world,
                   resolved, settled, created, retried, lastAdd, loader, unit>>

\* one call enrichUrlMetadata(id, url) (349-416) for an id that is not, or no
\* longer, in data.items
CallEnrichUrlMetadataOfMissing(id, url) ==
    /\ Idle
    /\ ItemOf(items, id) = NoItem
    /\ id < nextId
    /\ settled[id] = <<>>
    /\ LET call == enrichUrlMetadata(id, url)
       IN  /\ items' = ApplyUpdates(items, call.updates)
           /\ timers' = timers \cup call.timeouts
           /\ cache' = Stored(cache, call.stores)
           /\ settled' = [settled EXCEPT ![id] =
                             Append(@, [outcome |-> call.settles, edited |-> FALSE])]
    /\ view' = Commit(items')
    /\ UNCHANGED <<pendingUrls, jobs, now, nextId, world, resolved,
                   created, retried, lastAdd, loader, unit>>

CallNext ==
    \/ \E u \in Urls \cup {UrlB} : CallFetchPageMetadata(u)
    \/ \E id \in Ids : CallEnrichUrlMetadata(id)
    \/ \E id \in Ids : RetryCallback(id)
    \/ \E id \in Ids : DeleteItem(id)
    \/ \E id \in Ids : CallEnrichUrlMetadataOfMissing(id, UrlB)
    \/ \E u \in Urls, t \in GivenTitles, i \in GivenImages : CallAddItemUrl(u, "b1", t, i)
    \/ FinallyClear

CallSpec == CallInit /\ [][CallNext]_vars

-----------------------------------------------------------------------------
(* The merge of enrichUrlMetadata: the blocks of lines 358-372 (cache hit)  *)
(* and 376-403 (resolved result), evaluated on their own for a current item *)
(* and a payload that are given.  The program itself never reaches them     *)
(* (see enrichUrlMetadata above).                                           *)

\* isFavicon (lines 364 and 390)
isFavicon(src) == Truthy(src) /\ Contains(toLowerCase(src), <<"f","a","v","i","c","o","n">>)

\* A shouldSetTitle that does not read userEditedTitle
shouldSetTitleIgnoringEdit(currentItem, url) ==
    \/ ~Truthy(currentItem.title)
    \/ currentItem.title = UntitledLink
    \/ currentItem.title = inferTitleFromUrl(url)
    \/ Len(currentItem.title) < 3

\* shouldSetTitle (lines 361-363 and 385-387)
shouldSetTitle(currentItem, url) ==
    /\ ~currentItem.userEditedTitle
    /\ \/ ~Truthy(currentItem.title)
       \/ currentItem.title = UntitledLink
       \/ currentItem.title = inferTitleFromUrl(url)
       \/ Len(currentItem.title) < 3

\* A shouldSetImage that takes any current image for a placeholder
shouldSetImageOverAnyImage(currentItem, payload) ==
    /\ ~currentItem.userEditedImage
    /\ Truthy(payload.image)

\* shouldSetImage (lines 365-367 and 391-393)
shouldSetImage(currentItem, payload) ==
    /\ ~currentItem.userEditedImage
    /\ \/ ~Truthy(currentItem.image) /\ Truthy(payload.image)
       \/ Truthy(currentItem.image) /\ isFavicon(currentItem.image) /\ Truthy(payload.image)

\* An updateObj that sets enrichFlash on the cache-hit path as well
updateObjAlwaysFlashing(currentItem, payload, url, flash) ==
    LET fields == {"site", "metaStatus", "enrichFlash"}
                  \cup (IF shouldSetTitle(currentItem, url) /\ Truthy(payload.title)
                        THEN {"title"} ELSE {})
                  \cup (IF shouldSetImage(currentItem, payload) THEN {"image"} ELSE {})
    IN  [f \in fields |->
            CASE f = "site" -> payload.site
              [] f = "metaStatus" -> "done"
              [] f = "title" -> payload.title
              [] f = "image" -> payload.image
              [] f = "enrichFlash" -> TRUE]

\* An updateObj that leaves the site out
updateObjWithoutSite(currentItem, payload, url, flash) ==
    LET fields == {"metaStatus"}
                  \cup (IF shouldSetTitle(currentItem, url) /\ Truthy(payload.title)
                        THEN {"title"} ELSE {})
                  \cup (IF shouldSetImage(currentItem, payload) THEN {"image"} ELSE {})
                  \cup (IF flash THEN {"enrichFlash"} ELSE {})
    IN  [f \in fields |->
            CASE f = "metaStatus" -> "done"
              [] f = "title" -> payload.title
              [] f = "image" -> payload.image
              [] f = "enrichFlash" -> TRUE]

\* An updateObj that appends the resolved title to the current one
updateObjAppendingTitle(currentItem, payload, url, flash) ==
    LET fields == {"site", "metaStatus"}
                  \cup (IF ~currentItem.userEditedTitle /\ Truthy(payload.title)
                        THEN {"title"} ELSE {})
                  \cup (IF shouldSetImage(currentItem, payload) THEN {"image"} ELSE {})
                  \cup (IF flash THEN {"enrichFlash"} ELSE {})
    IN  [f \in fields |->
            CASE f = "site" -> payload.site
              [] f = "metaStatus" -> "done"
              [] f = "title" -> currentItem.title \o payload.title
              [] f = "image" -> payload.image
              [] f = "enrichFlash" -> TRUE]

\* updateObj (lines 368-370 and 394-399): flash says whether enrichFlash is set
updateObj(currentItem, payload, url, flash) ==
    LET fields == {"site", "metaStatus"}
                  \cup (IF shouldSetTitle(currentItem, url) /\ Truthy(payload.title)
                        THEN {"title"} ELSE {})
                  \cup (IF shouldSetImage(currentItem, payload) THEN {"image"} ELSE {})
                  \cup (IF flash THEN {"enrichFlash"} ELSE {})
    IN  [f \in fields |->
            CASE f = "site" -> payload.site
              [] f = "metaStatus" -> "done"
              [] f = "title" -> payload.title
              [] f = "image" -> payload.image
              [] f = "enrichFlash" -> TRUE]

\* the titles and images the current item may carry
CurrentTitles == {<<>>, UntitledLink, inferTitleFromUrl(UrlA), <<"a","b">>, TypedTitle}
CurrentImages == {Null, getFavicon(UrlA), UrlB}

CurrentItem(title, edited, image, editedImage) ==
    [NewItem(0, UrlA, "b1", "url", Null, Null, 0)
        EXCEPT !.title = title, !.userEditedTitle = edited,
               !.image = image, !.userEditedImage = editedImage]

\* the site and the notes the current item may carry: those addItem gave
\* it, or none, and notes the user typed or none
CurrentSites == {getDomain(UrlA), <<>>}
CurrentNotes == {<<>>, <<"n">>}

\* a second item of the collection, which no merge is for: a link that
\* does not parse, in the other bucket, with no cache entry
OtherItem == NewItem(1, UrlC, "b2", "url", Null, Null, 0)

\* how many merges of one item the model follows
MaxMerges == 2

\* A payload that carries no site
PayloadWithoutSite(title, image, url) == [title |-> title, image |-> image, site |-> <<>>]

\* payload (lines 377-378)
Payload(title, image, url) == [title |-> title, image |-> image, site |-> getDomain(url)]

MergeInit ==
    /\ \E title \in CurrentTitles, image \in CurrentImages, e1 \in BOOLEAN, e2 \in BOOLEAN :
          \E site \in CurrentSites, notes \in CurrentNotes :
             items = <<[CurrentItem(title, e1, image, e2)
                           EXCEPT !.site = site, !.notes = notes],
                       OtherItem>>
    /\ view = Commit(items)
    /\ pendingUrls = {}
    /\ \E title \in GivenTitles, image \in GivenImages, hit \in BOOLEAN :
          /\ resolved = [url |-> UrlA, meta |-> [title |-> title, image |-> image]]
          /\ cache = [StoredCache EXCEPT ![UrlA] =
                         IF hit THEN Payload(title, image, UrlA) ELSE NoEntry]
    /\ timers = {}
    /\ jobs = <<>>
    /\ now = 0
    /\ nextId = 1
    /\ world = "rich"
    /\ settled = [i \in Ids |-> <<>>]
    /\ created = [i \in Ids |-> NotCreated]
    /\ retried = [i \in Ids |-> 0]
    /\ lastAdd = NoAdd
    /\ loader = NoLoader
    /\ unit = NoUnit

\* lines 358-372 for the item id, whose URL has a cache entry
MergeCacheHit(id) ==
    /\ id \in RenderedIds
    /\ Len(settled[id]) < MaxMerges
    /\ LET currentItem == ItemOf(view.items, id)
           url == currentItem.url
       IN  /\ cache[url] # NoEntry
           /\ items' = updateItem(items, id, updateObj(currentItem, cache[url], url, FALSE))
           /\ settled' = [settled EXCEPT ![id] =
                             Append(@, [outcome |-> "fulfilled",
                                        edited |-> currentItem.userEditedTitle])]
    /\ view' = Commit(items')
    /\ UNCHANGED <<pendingUrls, cache, timers, jobs, now, nextId, world, resolved,
                   created, retried, lastAdd, loader, unit>>

\* lines 376-403 for the item id and the result that fetchPageMetadata
\* gave: line 358 lets them run only when the URL has no cache entry
MergeResult(id) ==
    /\ id \in RenderedIds
    /\ Len(settled[id]) < MaxMerges
    /\ LET currentItem == ItemOf(view.items, id)
           url == currentItem.url
           payload == Payload(resolved.meta.title, resolved.meta.image, url)
       IN  /\ resolved.url = url
           /\ cache[url] = NoEntry
           /\ cache' = [cache EXCEPT ![url] = payload]
           /\ items' = updateItem(items, id, updateObj(currentItem, payload, url, TRUE))
           /\ timers' = timers \cup {[id |-> id, delay |-> 1400]}
           /\ settled' = [settled EXCEPT ![id] =
                             Append(@, [outcome |-> "fulfilled",
                                        edited |-> currentItem.userEditedTitle])]
    /\ view' = Commit(items')
    /\ UNCHANGED <<pendingUrls, jobs, now, nextId, world, resolved,
                   created, retried, lastAdd, loader, unit>>

\* the callback of line 403, 1400 ms after the merge of a resolved result
ClearFlash(id) ==
    /\ [id |-> id, delay |-> 1400] \in timers
    /\ timers' = timers \ {[id |-> id, delay |-> 1400]}
    /\ items' = updateItem(items, id, [enrichFlash |-> FALSE])
    /\ view' = Commit(items')
    /\ UNCHANGED <<pendingUrls, cache, jobs, now, nextId, world, resolved, settled,
                   created, retried, lastAdd, loader, unit>>

MergeNext ==
    \/ \E id \in Ids : MergeCacheHit(id)
    \/ \E id \in Ids : MergeResult(id)
    \/ \E id \in Ids : ClearFlash(id)

MergeSpec == MergeInit /\ [][MergeNext]_vars

-----------------------------------------------------------------------------
(* loadImageWithTimeout (lines 120-134): one call, its timer and its image *)

\* the minimums the callers pass (lines 120, 159, 190) and the natural
\* dimensions an image may have
MinWidths == {0, 200}
MinHeights == {0, 120}
NaturalWidths == {0, 199, 200}
NaturalHeights == {0, 119, 120}

\* An ok that compares the width only
DimensionsOkWidthOnly(l) == l.naturalWidth >= l.minWidth

\* const ok = w >= minWidth && h >= minHeight (line 127)
DimensionsOk(l) == l.naturalWidth >= l.minWidth /\ l.naturalHeight >= l.minHeight

ImageInit ==
    /\ items = <<>>
    /\ view = Commit(items)
    /\ pendingUrls = {}
    /\ cache = StoredCache
    /\ timers = {}
    /\ jobs = <<>>
    /\ now = 0
    /\ nextId = 1
    /\ world = "rich"
    /\ resolved = NotResolved
    /\ settled = [i \in Ids |-> <<>>]
    /\ created = [i \in Ids |-> NotCreated]
    /\ retried = [i \in Ids |-> 0]
    /\ lastAdd = NoAdd
    /\ loader = NoLoader
    /\ unit = NoUnit

UnchangedButLoader ==
    UNCHANGED <<items, view, pendingUrls, cache, timers, jobs, now, nextId, world,
                resolved, settled, created, retried, lastAdd, unit>>

\* the executor (lines 121-133): the timer is armed and img.src is set.
\* `resolves` is the calls of resolve, `events` the events in their order.
CallLoadImageWithTimeout(minWidth, minHeight, naturalWidth, naturalHeight) ==
    /\ loader = NoLoader
    /\ loader' = [called |-> TRUE,
                  minWidth |-> minWidth, minHeight |-> minHeight,
                  naturalWidth |-> naturalWidth, naturalHeight |-> naturalHeight,
                  settled |-> FALSE, timer |-> "armed", image |-> "loading",
                  resolves |-> <<>>, events |-> <<>>]
    /\ UnchangedButLoader

\* the callback of setTimeout (line 123)
LoaderTimerFires ==
    /\ loader.called
    /\ loader.timer = "armed"
    /\ loader' = [loader EXCEPT
                    !.timer = "fired",
                    !.settled = TRUE,
                    !.resolves = IF loader.settled THEN @ ELSE Append(@, FALSE),
                    !.events = Append(@, "timeout")]
    /\ UnchangedButLoader

\* An onload without the test of `settled` (line 125)
ImageLoadsWithoutSettledTest ==
    /\ loader.called
    /\ loader.image = "loading"
    /\ loader' = [loader EXCEPT
                    !.image = "loaded",
                    !.settled = TRUE,
                    !.timer = IF @ = "armed" THEN "cleared" ELSE @,
                    !.resolves = Append(@, DimensionsOk(loader)),
                    !.events = Append(@, "load")]
    /\ UnchangedButLoader

\* img.onload (lines 124-131)
ImageLoads ==
    /\ loader.called
    /\ loader.image = "loading"
    /\ loader' = [loader EXCEPT
                    !.image = "loaded",
                    !.settled = TRUE,
                    !.timer = IF ~loader.settled /\ @ = "armed" THEN "cleared" ELSE @,
                    !.resolves = IF loader.settled THEN @ ELSE Append(@, DimensionsOk(loader)),
                    !.events = Append(@, "load")]
    /\ UnchangedButLoader

\* img.onerror (line 132)
ImageErrors ==
    /\ loader.called
    /\ loader.image = "loading"
    /\ loader' = [loader EXCEPT
                    !.image = "errored",
                    !.settled = TRUE,
                    !.timer = IF ~loader.settled /\ @ = "armed" THEN "cleared" ELSE @,
                    !.resolves = IF loader.settled THEN @ ELSE Append(@, FALSE),
                    !.events = Append(@, "error")]
    /\ UnchangedButLoader

ImageNext ==
    \/ \E mw \in MinWidths, mh \in MinHeights, w \in NaturalWidths, h \in NaturalHeights :
          CallLoadImageWithTimeout(mw, mh, w, h)
    \/ LoaderTimerFires
    \/ ImageLoads
    \/ ImageErrors

ImageSpec == ImageInit /\ [][ImageNext]_vars

-----------------------------------------------------------------------------
(* normalizeTitle (39-78) and inferTitleFromUrl (80-101), each called on    *)
(* its own with arguments that are given                                    *)

\* the words raw titles are made of: a repeated word in two spellings, a word
\* that starts with a digit, one that starts with an underscore, a
\* boilerplate word, a hyphenated word and one with a pipe
RawWords == {<<"F","o","o">>, <<"f","o","o">>, <<"3","d">>, <<"_","b","a","r">>, <<"p","r","i","c","e">>, <<"h","o","n","d","a","-","c","i","t","y">>, <<"a","|","b">>, <<"o","n",":","r","o","a","d">>}
RawTitles ==
    {Null, <<>>} \cup RawWords
    \cup {w[1] \o <<" ">> \o w[2] : w \in RawWords \X RawWords}
RawDomains == {<<>>, <<"w","w","w",".","h","o","n","d","a",".","c","o","m">>, <<"a",".","i","n">>}

\* the URLs inferTitleFromUrl is given: a host, and up to three path
\* segments, among them a noise segment written with a capital
UrlHosts == {<<"h","t","t","p",":","/","/","h",".","o","r","g">>, <<"h","t","t","p","s",":","/","/","w","w","w",".","h","o","n","d","a",".","c","o","m">>}
PathSegments == {<<"B","l","o","g">>, <<"c","a","r","s">>, <<"h","o","n","d","a","_","c","i","t","y">>, <<"m","y","-","c","a","r">>, <<"o","n","-","-","r","o","a","d">>}
PathsOf(n) == [1..n -> PathSegments]
UrlPaths == PathsOf(0) \cup PathsOf(1) \cup PathsOf(2) \cup PathsOf(3)
UrlOf(host, path) == host \o <<"/">> \o Join(path, <<"/">>)
GivenUrls ==
    {Null, UrlC} \cup UrlHosts \cup {UrlOf(hp[1], hp[2]) : hp \in UrlHosts \X UrlPaths}

UnitCalls ==
    {[fn |-> "normalizeTitle", args |-> <<a[1], a[2]>>, returned |-> FALSE, result |-> Null,
      again |-> <<>>] : a \in RawTitles \X RawDomains}
    \cup {[fn |-> f, args |-> <<u>>, returned |-> FALSE, result |-> Null] :
             f \in {"inferTitleFromUrl", "initialTitleToUse"}, u \in GivenUrls}

UnitInit ==
    /\ items = <<>>
    /\ view = Commit(items)
    /\ pendingUrls = {}
    /\ cache = StoredCache
    /\ timers = {}
    /\ jobs = <<>>
    /\ now = 0
    /\ nextId = 1
    /\ world = "down"
    /\ resolved = NotResolved
    /\ settled = [i \in Ids |-> <<>>]
    /\ created = [i \in Ids |-> NotCreated]
    /\ retried = [i \in Ids |-> 0]
    /\ lastAdd = NoAdd
    /\ loader = NoLoader
    /\ unit \in UnitCalls

UnchangedButUnit ==
    UNCHANGED <<items, view, pendingUrls, cache, timers, jobs, now, nextId, world,
                resolved, settled, created, retried, lastAdd, loader>>

CallNormalizeTitle ==
    /\ unit.fn = "normalizeTitle"
    /\ ~unit.returned
    /\ unit' = [unit EXCEPT !.returned = TRUE,
                            !.result = normalizeTitle(unit.args[1], unit.args[2])]
    /\ UnchangedButUnit

CallInferTitleFromUrl ==
    /\ unit.fn = "inferTitleFromUrl"
    /\ ~unit.returned
    /\ unit' = [unit EXCEPT !.returned = TRUE, !.result = inferTitleFromUrl(unit.args[1])]
    /\ UnchangedButUnit

\* normalizeTitle called on the title it returned, with the same domain
\* (again is empty until then: normalizeTitle returns no empty string)
CallNormalizeTitleAgain ==
    /\ unit.fn = "normalizeTitle"
    /\ unit.returned
    /\ unit.result # Null
    /\ unit.again = <<>>
    /\ unit' = [unit EXCEPT !.again = normalizeTitle(unit.result, unit.args[2])]
    /\ UnchangedButUnit

\* initialTitleToUse of addItem(url, bucket, 'url') without a quick title
\* (lines 644-647)
CallInitialTitle ==
    /\ unit.fn = "initialTitleToUse"
    /\ ~unit.returned
    /\ unit' = [unit EXCEPT !.returned = TRUE,
                            !.result = InitialTitle(unit.args[1], "url", Null)]
    /\ UnchangedButUnit

UnitNext ==
    \/ CallNormalizeTitle
    \/ CallNormalizeTitleAgain
    \/ CallInitialTitle
    \/ CallInferTitleFromUrl

UnitSpec == UnitInit /\ [][UnitNext]_vars

-----------------------------------------------------------------------------
(* The metadata proxy, src/server/metadata-proxy.js                         *)

\* The file as node reads it: the proxy (lines 1-76), then a copy of the
\* client (lines 78-956) whose components return JSX elements (from line
\* 316 on).  node parses a whole module before it runs its first statement.
ProxyModule ==
    <<[from |-> 1, to |-> 76, jsx |-> FALSE],
      [from |-> 78, to |-> 956, jsx |-> TRUE]>>

\* whether the module parses as JavaScript, so that its statements run
ModuleParses(parts) == \A k \in 1..Len(parts) : ~parts[k].jsx

\* app.listen (line 76) has run
Listening == ModuleParses(ProxyModule)

\* the words of line 57, which make the handler skip an image candidate
NoiseWords == {<<"l","o","g","o">>, <<"i","c","o","n">>, <<"s","p","r","i","t","e">>, <<"a","d">>, <<"b","a","d","g","e">>, <<"g","o","o","g","l","e","s","y","n","d","i","c","a","t","i","o","n">>}
IsNoise(c) == \E w \in NoiseWords : Contains(toLowerCase(c), w)

OgTitle == PageTitle
TwitterTitle == <<"T","w">>
TagTitle == <<"T","a","g">>
Description == <<"D","e","s","c">>
LogoImage == <<"h","t","t","p","s",":","/","/","a",".","i","n","/","l","o","g","o",".","p","n","g">>
OtherImage == <<"h","t","t","p","s",":","/","/","a",".","i","n","/","o",".","p","n","g">>

\* the <img src> of a page, in document order: none, one, a logo and
\* another, and thirteen of which only the last would pass the validation
ThirteenImgs == [k \in 1..13 |-> IF k <= 12 THEN PageImage ELSE OtherImage]
ImgLists == {<<>>, <<OtherImage>>, <<LogoImage, OtherImage>>, ThirteenImgs}

\* the images that answer a HEAD request with an image type
HeadOkSets == {{LogoImage} \cup ok : ok \in SUBSET {PageImage, OtherImage}}

\* what the target URL answers to the proxy: nothing, a status that is not
\* ok, or a page with or without og:title, twitter:title, <title>, meta
\* description, og:image, twitter:image, link image_src and <img> elements
Upstreams ==
    {[kind |-> k, ogTitle |-> Null, twitterTitle |-> Null, title |-> Null,
      description |-> Null, ogImage |-> Null, twitterImage |-> Null,
      linkImage |-> Null, imgs |-> <<>>, headOk |-> {}] : k \in {"down", "notok"}}
    \cup [kind : {"ok"}, ogTitle : {Null, OgTitle}, twitterTitle : {Null, TwitterTitle},
          title : {Null, TagTitle}, description : {Null, Description},
          ogImage : {Null, PageImage, LogoImage}, twitterImage : {Null, PageImage},
          linkImage : {Null, OtherImage}, imgs : ImgLists, headOk : HeadOkSets]

\* req.query.url: absent, or one of the URLs of the model
QueryUrls == {Null, UrlA, UrlB, UrlC}

\* (new URL(url)).hostname.replace(/^www\./, '') (line 67)
ProxySite(url) ==
    IF StartsWith(Hostname(url), <<"w","w","w",".">>) THEN Drop(Hostname(url), 4)
    ELSE Hostname(url)

\* validateImage (lines 39-50) for an absolute candidate
validateImage(src, upstream) == IF src \in upstream.headOk THEN src ELSE Null

\* imgMatches (line 34): the first twelve
imgMatches(upstream) ==
    SubSeq(upstream.imgs, 1, IF Len(upstream.imgs) < 12 THEN Len(upstream.imgs) ELSE 12)

\* ranking (line 54)
ranking(upstream) ==
    (IF Truthy(upstream.ogImage) THEN <<upstream.ogImage>> ELSE <<>>)
    \o (IF Truthy(upstream.twitterImage) THEN <<upstream.twitterImage>> ELSE <<>>)
    \o (IF Truthy(upstream.linkImage) THEN <<upstream.linkImage>> ELSE <<>>)
    \o imgMatches(upstream)

\* the loop of lines 55-61 without the noise test of line 57
RECURSIVE chooseImageWithoutNoiseFilter(_, _, _)
chooseImageWithoutNoiseFilter(left, upstream, heads) ==
    IF left = <<>> THEN [image |-> Null, heads |-> heads]
    ELSE IF ~Truthy(left[1])
    THEN chooseImageWithoutNoiseFilter(Tail(left), upstream, heads)
    ELSE IF validateImage(left[1], upstream) # Null
    THEN [image |-> validateImage(left[1], upstream), heads |-> Append(heads, left[1])]
    ELSE chooseImageWithoutNoiseFilter(Tail(left), upstream, Append(heads, left[1]))

\* the loop of lines 55-61 over the candidates left: the image chosen and the
\* HEAD requests made, after those of `heads`
RECURSIVE chooseImage(_, _, _)
chooseImage(left, upstream, heads) ==
    IF left = <<>> THEN [image |-> Null, heads |-> heads]
    ELSE IF ~Truthy(left[1]) \/ IsNoise(left[1])
    THEN chooseImage(Tail(left), upstream, heads)
    ELSE IF validateImage(left[1], upstream) # Null
    THEN [image |-> validateImage(left[1], upstream), heads |-> Append(heads, left[1])]
    ELSE chooseImage(Tail(left), upstream, Append(heads, left[1]))

\* the title of the response (lines 64-65)
proxyTitle(upstream) ==
    OrElse(upstream.ogTitle, OrElse(upstream.twitterTitle, upstream.title))

\* rawTitle of the client's direct fetch (lines 169-171 and 195 of App.jsx)
rawTitle(page) == OrElse(page.ogTitle, OrElse(page.title, page.description))

\* the handler of GET /fetch (lines 12-74): the responses it sends, in order
fetchHandler(url, upstream) ==
    IF ~Truthy(url) THEN <<[status |-> 400, body |-> [error |-> "url required"]]>>
    ELSE IF ~UrlParses(url) \/ upstream.kind = "down"
    THEN \* fetch throws (line 16), caught at line 71
         <<[status |-> 500, body |-> [error |-> "fetch failed"]]>>
    ELSE IF upstream.kind = "notok"
    THEN <<[status |-> 502, body |-> [error |-> "bad upstream"]]>>
    ELSE <<[status |-> 200,
            body |-> [title |-> proxyTitle(upstream),
                      image |-> chooseImage(ranking(upstream), upstream, <<>>).image,
                      site |-> ProxySite(url)]]>>

\* the HEAD requests the handler makes, in order
headRequests(url, upstream) ==
    IF Truthy(url) /\ UrlParses(url) /\ upstream.kind = "ok"
    THEN chooseImage(ranking(upstream), upstream, <<>>).heads
    ELSE <<>>

\* a request to the server, the handler called on its own, and the title
\* choice of the client's direct fetch for a page
ProxyCalls ==
    {[fn |-> f, args |-> <<a[1], a[2]>>, returned |-> FALSE, result |-> <<>>,
      heads |-> <<>>] : f \in {"GET /fetch", "handler"}, a \in QueryUrls \X Upstreams}
    \cup {[fn |-> "rawTitle", args |-> <<up>>, returned |-> FALSE, result |-> Null,
           heads |-> <<>>] : up \in {u \in Upstreams : u.imgs = <<>> /\ u.headOk = {LogoImage}}}

ProxyInit ==
    /\ items = <<>>
    /\ view = Commit(items)
    /\ pendingUrls = {}
    /\ cache = StoredCache
    /\ timers = {}
    /\ jobs = <<>>
    /\ now = 0
    /\ nextId = 1
    /\ world = "down"
    /\ resolved = NotResolved
    /\ settled = [i \in Ids |-> <<>>]
    /\ created = [i \in Ids |-> NotCreated]
    /\ retried = [i \in Ids |-> 0]
    /\ lastAdd = NoAdd
    /\ loader = NoLoader
    /\ unit \in ProxyCalls

\* One request GET /fetch to port 4000, followed until the handler has
\* returned or the connection was refused; result is the responses sent
Request ==
    /\ unit.fn = "GET /fetch"
    /\ ~unit.returned
    /\ unit' = [unit EXCEPT !.returned = TRUE,
                            !.result = IF Listening
                                       THEN fetchHandler(unit.args[1], unit.args[2])
                                       ELSE <<>>,
                            !.heads = IF Listening
                                      THEN headRequests(unit.args[1], unit.args[2])
                                      ELSE <<>>]
    /\ UnchangedButUnit

\* the handler of lines 12-74 called on its own with a request
CallFetchHandler ==
    /\ unit.fn = "handler"
    /\ ~unit.returned
    /\ unit' = [unit EXCEPT !.returned = TRUE,
                            !.result = fetchHandler(unit.args[1], unit.args[2]),
                            !.heads = headRequests(unit.args[1], unit.args[2])]
    /\ UnchangedButUnit

\* lines 168-171 and 195 of the client called on their own with a page
CallRawTitle ==
    /\ unit.fn = "rawTitle"
    /\ ~unit.returned
    /\ unit' = [unit EXCEPT !.returned = TRUE, !.result = rawTitle(unit.args[1])]
    /\ UnchangedButUnit

ProxyNext ==
    \/ Request
    \/ CallFetchHandler
    \/ CallRawTitle

ProxySpec == ProxyInit /\ [][ProxyNext]_vars

-----------------------------------------------------------------------------
(* The duplicate check of addItem (626-642) over a collection that grows    *)
(* and that the user reorders                                               *)

\* reorderItems (715-725): the dragged item is taken out and put in at the
\* index the target had before
reorderItems(its, draggedId, targetId) ==
    IF draggedId = targetId THEN its
    ELSE LET draggedIndex == CHOOSE k \in 1..Len(its) : its[k].id = draggedId
             targetIndex == CHOOSE k \in 1..Len(its) : its[k].id = targetId
             without == [k \in 1..(Len(its) - 1) |->
                            IF k < draggedIndex THEN its[k] ELSE its[k + 1]]
         IN  [k \in 1..Len(its) |->
                 IF k < targetIndex THEN without[k]
                 ELSE IF k = targetIndex THEN its[draggedIndex]
                 ELSE without[k - 1]]

DupInit ==
    /\ items = <<>>
    /\ view = Commit(items)
    /\ pendingUrls = {}
    /\ cache = StoredCache
    /\ timers = {}
    /\ jobs = <<>>
    /\ now = 0
    /\ nextId = 0
    /\ world = "down"
    /\ resolved = NotResolved
    /\ settled = [i \in Ids |-> <<>>]
    /\ created = [i \in Ids |-> NotCreated]
    /\ retried = [i \in Ids |-> 0]
    /\ lastAdd = NoAdd
    /\ loader = NoLoader
    /\ unit = NoUnit

\* handleSubmit (834-884) for a link, run to the end of its task: its probes
\* give nothing, so it calls addItem with the favicon (line 855); rendered
SaveLink(inputValue, selectedBucketId) ==
    /\ Idle
    /\ \/ Len(items) <= MaxItems + 1
       \/ ExistingItem(view.items, pendingUrls, inputValue, selectedBucketId, "url", now) # NoItem
    /\ LET quick == AwaitProbes(fetchTitleQuick(inputValue), fetchImageQuick(inputValue))
       IN  CallAddItem(inputValue, selectedBucketId, "url", quick[1],
                       OrElse(quick[2], getFavicon(inputValue)), jobs, "handleSubmit", quick)
    /\ view' = Commit(items')
    /\ UNCHANGED <<now, world, resolved, retried, loader, unit>>

\* a drop of the dragged card on another card (line 1113), rendered
DropOn(draggedId, targetId) ==
    /\ Idle
    /\ draggedId \in RenderedIds
    /\ targetId \in RenderedIds
    /\ draggedId # targetId
    /\ ItemOf(items, draggedId).bucketId = ItemOf(items, targetId).bucketId
    /\ items' = reorderItems(items, draggedId, targetId)
    /\ view' = Commit(items')
    /\ UNCHANGED <<pendingUrls, cache, timers, jobs, now, nextId, world,
                   resolved, settled, created, retried, lastAdd, loader, unit>>

DupNext ==
    \/ \E u \in Urls, b \in Buckets : SaveLink(u, b)
    \/ \E d \in 0..(MaxItems + 1), t \in 0..(MaxItems + 1) : DropOn(d, t)
    \/ FinallyClear
    \/ Tick

DupSpec == DupInit /\ [][DupNext]_vars

-----------------------------------------------------------------------------
(* The failure path of enrichUrlMetadata: lines 355-356 and 404-409 (or the  *)
(* same statements in the catch, 411-415), evaluated on their own for the    *)
(* item the lookup of line 355 gives.  The program itself never reaches them *)
(* (see enrichUrlMetadata above).                                            *)

\* A failure path that counts its calls itself instead of reading the item
failurePathCountingCalls(item, id, made) ==
    [updates |-> <<[id |-> id, updates |-> [metaStatus |-> "failed", metaAttempts |-> made + 1]]>>,
     timeouts |-> IF made + 1 < 3 THEN {[id |-> id, delay |-> 2000 * (made + 1)]} ELSE {}]

\* line 356, attempts = item?.metaAttempts || 0; line 405, nextAttempts;
\* line 407, updateItem; line 408, the retry timer.  `made` is the number
\* of attempts that have ended before: the code keeps no such count.
failurePath(item, id, made) ==
    LET attempts == IF item = NoItem THEN 0 ELSE item.metaAttempts
        nextAttempts == attempts + 1
    IN  [updates |-> <<[id |-> id, updates |-> [metaStatus |-> "failed",
                                                metaAttempts |-> nextAttempts]]>>,
         timeouts |-> IF nextAttempts < 3
                      THEN {[id |-> id, delay |-> 2000 * nextAttempts]}
                      ELSE {}]

\* how many failing attempts of one item the model follows
MaxAttempts == 4

RetryInit ==
    /\ items \in PendingDatabases \ {<<>>}
    /\ view = Commit(items)
    /\ pendingUrls = {}
    /\ cache = StoredCache
    /\ timers = {}
    /\ jobs = <<>>
    /\ now = 0
    /\ nextId = 1
    /\ world = "down"
    /\ resolved = NotResolved
    /\ settled = [i \in Ids |-> <<>>]
    /\ created = [i \in Ids |-> NotCreated]
    /\ retried = [i \in Ids |-> 0]
    /\ lastAdd = NoAdd
    /\ loader = NoLoader
    /\ unit = NoUnit

\* the failure path run for the id: the item's update, the timer, and one
\* more attempt that has ended
FailAttempt(id) ==
    LET call == failurePath(ItemOf(items, id), id, Len(settled[id]))
    IN  /\ items' = ApplyUpdates(items, call.updates)
        /\ timers' = (timers \ {t \in timers : t.id = id}) \cup call.timeouts
        /\ settled' = [settled EXCEPT ![id] =
                          Append(@, [outcome |-> "failed",
                                     found |-> ItemOf(items, id) # NoItem])]
        /\ view' = Commit(items')
        /\ UNCHANGED <<pendingUrls, cache, jobs, now, nextId, world, resolved,
                       created, retried, lastAdd, loader, unit>>

\* the first attempt, the one addItem started, fails; the item may have been
\* deleted in between
FirstAttemptFails(id) ==
    /\ id < nextId
    /\ settled[id] = <<>>
    /\ FailAttempt(id)

\* the retry timer of lines 408 and 414 fires and the attempt it starts fails
RetryAttemptFails(id) ==
    /\ \E t \in timers : t.id = id
    /\ Len(settled[id]) < MaxAttempts
    /\ FailAttempt(id)

RetryNext ==
    \/ \E id \in Ids : FirstAttemptFails(id)
    \/ \E id \in Ids : RetryAttemptFails(id)
    \/ \E id \in Ids : DeleteItem(id)
    \/ Tick

RetrySpec == RetryInit /\ [][RetryNext]_vars

-----------------------------------------------------------------------------
(* The pending set of addItem (lines 626-642 and 677-681) with resolutions   *)
(* that are still running when addItem is called again, as an enrichment     *)
(* that awaits the network would be.  In the program itself the promise of   *)
(* enrichUrlMetadata is settled when addItem returns and its reaction runs   *)
(* before the next event (see enrichUrlMetadata above).                      *)

PendInit ==
    /\ items = <<>>
    /\ view = Commit(items)
    /\ pendingUrls = {}
    /\ cache = StoredCache
    /\ timers = {}
    /\ jobs = <<>>
    /\ now = 0
    /\ nextId = 0
    /\ world = "down"
    /\ resolved = NotResolved
    /\ settled = [i \in Ids |-> <<>>]
    /\ created = [i \in Ids |-> NotCreated]
    /\ retried = [i \in Ids |-> 0]
    /\ lastAdd = NoAdd
    /\ loader = NoLoader
    /\ unit = NoUnit

\* one call addItem(content, targetBucketId, 'url'), rendered, while the
\* reactions of earlier calls may still wait
CallAddItemBeforeSettle(content, targetBucketId) ==
    /\ \/ nextId <= MaxItems
       \/ ExistingItem(view.items, pendingUrls, content, targetBucketId, "url", now) # NoItem
    /\ CallAddItem(content, targetBucketId, "url", Null, Null, jobs, "caller", <<Null, Null>>)
    /\ view' = Commit(items')
    /\ UNCHANGED <<now, world, resolved, retried, loader, unit>>

\* time passes, with or without resolutions running
TimePasses ==
    /\ now < MaxClock * TickMs
    /\ now' = now + TickMs
    /\ UNCHANGED <<items, view, pendingUrls, cache, timers, jobs, nextId, world,
                   resolved, settled, created, retried, lastAdd, loader, unit>>

PendNext ==
    \/ \E u \in Urls, b \in Buckets : CallAddItemBeforeSettle(u, b)
    \/ FinallyClear
    \/ TimePasses

PendSpec == PendInit /\ [][PendNext]_vars

-----------------------------------------------------------------------------
(* The properties *)

FailuresScheduleBackoff ==
    \A k \in 1..Len(items) :
        LET n == Len(settled[items[k].id])
        IN  (world = "down" /\ n > 0 /\ retried[items[k].id] = 0)
            => /\ n <= 3
               /\ items[k].metaStatus = "failed"
               /\ items[k].metaAttempts = n
               /\ n < 3 => [id |-> items[k].id, delay |-> 2000 * n] \in timers

\* C4: after the retry button was pressed on a failed item and the resolution
\* it started failed again (the network is down), the item is failed again
\* and an automatic retry is scheduled for it, whatever metaAttempts was.
ManualRetryRearmsBackoff ==
    \A k \in 1..Len(items) :
        (world = "down" /\ retried[items[k].id] > 0)
        => /\ items[k].metaStatus = "failed"
           /\ \E t \in timers : t.id = items[k].id

\* C5: once enrichUrlMetadata has run for an item whose URL has a cache
\* entry, the item is done, and a favicon image has been replaced by the
\* cached image unless the user edited the image.
CacheHitCompletesItem ==
    \A k \in 1..Len(items) :
        (/\ items[k].url \in DOMAIN cache
         /\ cache[items[k].url] # NoEntry
         /\ settled[items[k].id] # <<>>)
        => /\ items[k].metaStatus = "done"
           /\ (isFavicon(items[k].image) /\ ~items[k].userEditedImage)
              => items[k].image = cache[items[k].url].image

\* C6: every URL that addItem adds to the pending set is removed from it again
PendingUrlEventuallyCleared ==
    \A u \in Urls : (u \in pendingUrls) ~> (u \notin pendingUrls)

\* addItem has added a URL to the pending set and started its resolution
UrlIsPending ==
    \E u \in Urls : u \in pendingUrls /\ jobs # <<>>

PendingUnlessProbed ==
    \A id \in Ids :
        (created[id] # NotCreated /\ created[id].by = "handleSubmit")
        => IF created[id].isUrl
           THEN created[id].metaStatus = "pending"
                <=> ~(Truthy(created[id].quickTitle) \/ Truthy(created[id].quickImage))
           ELSE created[id].metaStatus = "done" /\ settled[id] = <<>>

\* C9: where the proxy answers with a title and an image that fails the size
\* check, fetchPageMetadata gives the title and a null image.
FastPathKeepsTitleDropsImage ==
    (world = "small" /\ resolved # NotResolved)
    => /\ resolved.meta # Null
       /\ resolved.meta.title = PageTitle
       /\ resolved.meta.image = Null

\* C10: where the page has neither title nor image, a call of
\* enrichUrlMetadata for a pending item without cache entry leaves the item
\* done and schedules nothing.
NoDataCountsAsDone ==
    \A k \in 1..Len(items) :
        (/\ world = "bare"
         /\ created[items[k].id] = NotCreated
         /\ cache[items[k].url] = NoEntry
         /\ settled[items[k].id] # <<>>)
        => /\ items[k].metaStatus = "done"
           /\ timers = {}

\* C11: a successful enrichment changes the item's title only if
\* userEditedTitle is not set, the current title is empty, the placeholder,
\* the title inferred from the URL or shorter than 3 characters, and the
\* resolved title is not null; the title it then carries is the resolved one.
TitleChangedOnlyWhenReplaceable ==
    [][\A id \in Ids :
          LET before == ItemOf(items, id)
              after == ItemOf(items', id)
              given == cache'[before.url].title
          IN  (/\ Len(settled'[id]) > Len(settled[id])
               /\ before # NoItem
               /\ after.title # before.title)
              => /\ ~before.userEditedTitle
                 /\ \/ before.title = <<>>
                    \/ before.title = UntitledLink
                    \/ before.title = inferTitleFromUrl(before.url)
                    \/ Len(before.title) < 3
                 /\ given # Null
                 /\ after.title = given]_vars

\* a merge has replaced a placeholder title by the resolved title
PlaceholderTitleReplaced ==
    /\ settled[0] # <<>>
    /\ ItemOf(items, 0).title = PageTitle
    /\ ~ItemOf(items, 0).userEditedTitle

\* C12: a successful enrichment changes the item's image only if
\* userEditedImage is not set, the current image is empty or a favicon, and
\* the resolved image is not null; the image it then carries is the resolved
\* one.
ImageChangedOnlyWhenPlaceholder ==
    [][\A id \in Ids :
          LET before == ItemOf(items, id)
              after == ItemOf(items', id)
              given == cache'[before.url].image
          IN  (/\ Len(settled'[id]) > Len(settled[id])
               /\ before # NoItem
               /\ after.image # before.image)
              => /\ ~before.userEditedImage
                 /\ before.image = Null \/ isFavicon(before.image)
                 /\ given # Null
                 /\ after.image = given]_vars

\* a merge has replaced a favicon by the resolved image
FaviconReplaced ==
    /\ settled[0] # <<>>
    /\ ItemOf(items, 0).image = PageImage
    /\ ~ItemOf(items, 0).userEditedImage
    /\ ItemOf(items, 0).metaStatus = "done"

\* C13: where the network answers, fetchPageMetadata gives the result of the
\* first step that completes, also when that result has neither title nor
\* image.
FirstCompletedStepDecides ==
    (resolved # NotResolved /\ world # "down")
    => /\ resolved.meta # Null
       /\ world = "bare" => resolved.meta.title = Null /\ resolved.meta.image = Null
       /\ world = "rich" => resolved.meta.title = PageTitle /\ resolved.meta.image = PageImage

\* C14: when every step of the resolution fails (the network is down and the
\* URL has no cache entry), the call of enrichUrlMetadata leaves the item
\* failed with metaAttempts one higher than before.
FailureIncrementsAttempts ==
    [][\A id \in Ids :
          LET before == ItemOf(items, id)
              after == ItemOf(items', id)
          IN  (/\ world = "down"
               /\ Len(settled'[id]) > Len(settled[id])
               /\ before # NoItem
               /\ cache[before.url] = NoEntry)
              => /\ after.metaStatus = "failed"
                 /\ after.metaAttempts = before.metaAttempts + 1]_vars

PendingEventuallySettles ==
    \A id \in Ids :
        (StatusOf(items, id) = "pending") ~> (StatusOf(items, id) \in {"done", "failed"})

\* C17: a call of enrichUrlMetadata for an item that is no longer in the
\* collection leaves the collection as it is and raises no error.
MissingItemToleratedQuietly ==
    [][\A id \in Ids :
          (/\ Len(settled'[id]) > Len(settled[id])
           /\ ItemOf(items, id) = NoItem
           /\ created'[id] = created[id])
          => /\ items' = items
             /\ settled'[id][Len(settled'[id])].outcome = "fulfilled"]_vars

\* C18: the promise of enrichUrlMetadata never rejects.
EnrichmentNeverRejects ==
    \A id \in Ids :
        \A k \in 1..Len(settled[id]) : settled[id][k].outcome = "fulfilled"

LoaderResolvesByFirstEvent ==
    loader.called
    => /\ Len(loader.resolves) <= 1
       /\ loader.events = <<>> <=> loader.resolves = <<>>
       /\ loader.resolves # <<>>
          => loader.resolves[1] =
                (/\ loader.events[1] = "load"
                 /\ loader.naturalWidth >= loader.minWidth
                 /\ loader.naturalHeight >= loader.minHeight)

\* the timer fired first and resolved false; the image, large enough, loaded
\* afterwards and changed nothing
LateLoadIgnored ==
    /\ loader.called
    /\ loader.events = <<"timeout", "load">>
    /\ loader.resolves = <<FALSE>>
    /\ loader.minWidth = 200
    /\ loader.naturalWidth >= loader.minWidth
    /\ loader.naturalHeight >= loader.minHeight

\* C21: the merge of an enrichment changes at most title, image, site,
\* metaStatus, metaAttempts and enrichFlash of the item it is for; every
\* other field of that item (id, url, domain, bucketId, notes, status,
\* visitCount, isArchived, the user-edit flags, ...) and every other item
\* of the collection stay as they were.
MergeChangesOnlyMetadataFields ==
    [][\A id \in Ids :
          Len(settled'[id]) > Len(settled[id])
          => /\ Len(items') = Len(items)
             /\ \A k \in 1..Len(items) :
                   IF items[k].id = id
                   THEN /\ DOMAIN items'[k] = DOMAIN items[k]
                        /\ \A f \in DOMAIN items[k] \
                                     {"title", "image", "site", "metaStatus",
                                      "metaAttempts", "enrichFlash"} :
                              items'[k][f] = items[k][f]
                   ELSE items'[k] = items[k]]_vars

\* a merge has written the title of an item that carries notes and a
\* user-edit flag, next to another item
MergedItemKeepsNotes ==
    /\ settled[0] # <<>>
    /\ ItemOf(items, 0).title = PageTitle
    /\ ItemOf(items, 0).notes = <<"n">>
    /\ ItemOf(items, 0).userEditedImage
    /\ ItemOf(items, 1) = OtherItem

InferredFromLastSegments ==
    (unit.fn = "inferTitleFromUrl" /\ unit.returned)
    => LET url == unit.args[1]
           segments == SplitNonEmpty(Pathname(url), "/")
           kept == {k \in 1..Len(segments) : toLowerCase(segments[k]) \notin Range(ignore)}
           last == CHOOSE k \in kept : \A j \in kept : j <= k
           rest == kept \ {last}
           lastButOne == CHOOSE k \in rest : \A j \in rest : j <= k
           spaced(t) == [i \in 1..Len(t) |-> IF t[i] \in {"-", "_"} THEN " " ELSE t[i]]
       IN  IF ~UrlParses(url) \/ kept = {} THEN unit.result = Null
           ELSE IF rest = {}
           THEN unit.result = normalizeTitle(spaced(segments[last]), Hostname(url))
           ELSE unit.result =
                   normalizeTitle(spaced(segments[lastButOne]) \o <<" ">>
                                     \o spaced(segments[last]),
                                  Hostname(url))

\* inferTitleFromUrl has returned a title for a path of three segments, one
\* of them the noise segment Blog
InferredPastNoiseSegment ==
    /\ unit.fn = "inferTitleFromUrl"
    /\ unit.returned
    /\ unit.result # Null
    /\ LET segments == SplitNonEmpty(Pathname(unit.args[1]), "/")
       IN  /\ Len(segments) = 3
           /\ segments[3] = <<"B","l","o","g">>
           /\ segments[1] # segments[2]

\* C24: the proxy answers every request GET /fetch with exactly one
\* response: 400 when the url parameter is missing, 502 when the upstream
\* answers with a status that is not ok, 500 on any other failure, and
\* otherwise the JSON {title, image, site}.
ProxyAnswersOnce ==
    (unit.fn = "GET /fetch" /\ unit.returned)
    => LET url == unit.args[1]
           upstream == unit.args[2]
       IN  /\ Len(unit.result) = 1
           /\ unit.result[1].status =
                 (IF url = Null THEN 400
                  ELSE IF ~UrlParses(url) \/ upstream.kind = "down" THEN 500
                  ELSE IF upstream.kind = "notok" THEN 502
                  ELSE 200)
           /\ unit.result[1].status = 200
              => DOMAIN unit.result[1].body = {"title", "image", "site"}

\* C25: when an automatic retry of a failed item starts, the item's
\* metaStatus goes back to pending for the retry attempt: the first thing
\* the retry writes to the item is metaStatus pending.
AutomaticRetryGoesBackToPending ==
    [][\A id \in Ids :
          LET before == ItemOf(items, id)
              writes == enrichUrlMetadata(id, before.url).updates
          IN  (/\ before # NoItem
               /\ before.metaStatus = "failed"
               /\ retried'[id] = retried[id]
               /\ Len(settled'[id]) > Len(settled[id]))
              => /\ writes # <<>>
                 /\ writes[1].id = id
                 /\ "metaStatus" \in DOMAIN writes[1].updates
                 /\ writes[1].updates.metaStatus = "pending"]_vars

\* C26: merging the same resolved result a second time leaves the item's
\* title, image, site and metaStatus as they were after the first merge.
SecondMergeChangesNothing ==
    [][\A id \in Ids :
          LET before == ItemOf(items, id)
              after == ItemOf(items', id)
          IN  (/\ Len(settled[id]) >= 1
               /\ Len(settled'[id]) > Len(settled[id]))
              => /\ after.title = before.title
                 /\ after.image = before.image
                 /\ after.site = before.site
                 /\ after.metaStatus = before.metaStatus]_vars

\* the resolved title and image have been merged into the item twice
MergedTwice ==
    /\ Len(settled[0]) = 2
    /\ ItemOf(items, 0).title = PageTitle
    /\ ItemOf(items, 0).image = PageImage
    /\ ItemOf(items, 0).metaStatus = "done"

\* C27: the cache entry of a URL changes only where the URL had none and a
\* resolution of it has succeeded: the step that merges the resolved result
\* stores {title, image, site} for the URL; every other step, a merge from
\* the cache included, leaves the cache as it is.
CacheWrittenBySuccessOnMiss ==
    [][\A u \in DOMAIN cache :
          LET succeeded ==
                 \E id \in Ids :
                    /\ ItemOf(items, id) # NoItem
                    /\ ItemOf(items, id).url = u
                    /\ resolved.url = u
                    /\ cache[u] = NoEntry
                    /\ Len(settled'[id]) > Len(settled[id])
          IN  /\ cache'[u] # cache[u] => succeeded
              /\ succeeded
                 => /\ cache'[u] = [title |-> resolved.meta.title,
                                    image |-> resolved.meta.image,
                                    site |-> getDomain(u)]
                    /\ \A id \in Ids :
                          Len(settled'[id]) > Len(settled[id])
                          => ItemOf(items', id).metaStatus = "done"]_vars

\* a resolved result was merged for a URL without cache entry, and the
\* entry is there
EntryWrittenOnMiss ==
    /\ Len(settled[0]) = 1
    /\ ItemOf(items, 0).enrichFlash
    /\ cache[UrlA] = [title |-> PageTitle, image |-> PageImage, site |-> getDomain(UrlA)]

\* C28: every merge that makes the item done also writes its site, whether
\* or not it writes title or image: the site of the cache entry where the
\* URL has one, and else the host of the URL without its www.
DoneRefreshesSite ==
    [][\A id \in Ids :
          LET before == ItemOf(items, id)
              after == ItemOf(items', id)
          IN  Len(settled'[id]) > Len(settled[id])
              => /\ after.metaStatus = "done"
                 /\ after.site =
                       (IF cache[before.url] # NoEntry THEN cache[before.url].site
                        ELSE RemoveFirst(Hostname(before.url), <<"w","w","w",".">>))]_vars

\* a merge has written the site of an item whose title and image it left
\* alone
SiteWrittenAlone ==
    /\ settled[0] # <<>>
    /\ ItemOf(items, 0).userEditedTitle
    /\ ItemOf(items, 0).userEditedImage
    /\ ItemOf(items, 0).title = TypedTitle
    /\ ItemOf(items, 0).image = UrlB
    /\ ItemOf(items, 0).site = getDomain(UrlA)
    /\ ItemOf(items, 0).metaStatus = "done"

NoSecondItemWhileRecentOrPending ==
    [][Len(items') = Len(items) + 1
       => ~\E k \in 1..Len(items) :
             /\ items'[1].url # <<>>
             /\ items[k].url = items'[1].url
             /\ items[k].bucketId = items'[1].bucketId
             /\ \/ now - items[k].createdAt < DuplicateWindowMs
                \/ items[k].metaStatus = "pending"]_vars

\* C31: both title extractions, the client's direct fetch and the proxy's
\* handler, return the first present candidate in the order og:title,
\* twitter:title, <title> text, meta description.
TitlePicksFirstPresentCandidate ==
    (unit.fn \in {"handler", "rawTitle"} /\ unit.returned)
    => LET page == IF unit.fn = "handler" THEN unit.args[2] ELSE unit.args[1]
           first == OrElse(page.ogTitle, OrElse(page.twitterTitle,
                        OrElse(page.title, page.description)))
       IN  IF unit.fn = "rawTitle" THEN unit.result = first
           ELSE unit.result[1].status = 200 => unit.result[1].body.title = first

\* C32: the handler's image is the first candidate, in the order og:image,
\* twitter:image, link image_src, first twelve <img src>, that is not noise
\* and whose HEAD request succeeds; the HEAD requests made are those of the
\* candidates that are not noise up to that one and none after it, and the
\* image is null when no candidate qualifies.
ImageIsFirstValidCandidate ==
    (unit.fn = "handler" /\ unit.returned /\ unit.result[1].status = 200)
    => LET page == unit.args[2]
           image == unit.result[1].body.image
           metas == <<page.ogImage, page.twitterImage, page.linkImage>>
           order == SelectSeq(metas, LAMBDA c : c # Null)
                    \o [k \in 1..(IF Len(page.imgs) < 12 THEN Len(page.imgs) ELSE 12)
                            |-> page.imgs[k]]
           Qualifies(c) == ~IsNoise(c) /\ c \in page.headOk
           hits == {k \in 1..Len(order) : Qualifies(order[k])}
       IN  IF hits = {}
           THEN /\ image = Null
                /\ unit.heads = SelectSeq(order, LAMBDA c : ~IsNoise(c))
           ELSE LET first == CHOOSE k \in hits : \A j \in hits : k <= j
                IN  /\ image = order[first]
                    /\ unit.heads = SelectSeq(SubSeq(order, 1, first),
                                              LAMBDA c : ~IsNoise(c))

\* a noisy og:image is passed over although its HEAD request would succeed,
\* the twitter:image is validated and returned, and the link image after it,
\* valid as well, is not requested
FirstValidCandidateChosen ==
    /\ unit.fn = "handler"
    /\ unit.returned
    /\ unit.args[2].kind = "ok"
    /\ unit.args[2].ogImage = LogoImage
    /\ unit.args[2].twitterImage = PageImage
    /\ unit.args[2].linkImage = OtherImage
    /\ unit.args[2].headOk = {LogoImage, PageImage, OtherImage}
    /\ unit.result[1].status = 200
    /\ unit.result[1].body.image = PageImage
    /\ unit.heads = <<PageImage>>

\* C33: normalizeTitle applied to a title it returned, with the same domain,
\* returns a title again, not shorter, with capitals and small letters at
\* the same places.
NormalizeAgainKeepsTitle ==
    (unit.fn = "normalizeTitle" /\ unit.returned /\ unit.again # <<>>)
    => /\ unit.again # Null
       /\ Len(unit.again) >= Len(unit.result)
       /\ \A i \in 1..Len(unit.result) :
             (unit.again[i] \in Range(UpperLetters)) = (unit.result[i] \in Range(UpperLetters))

\* C34: the promises of fetchTitleQuick and fetchImageQuick are fulfilled,
\* with a value or null, never rejected; and the step handleSubmit takes
\* once they have settled ends with an item of the submitted URL in
\* data.items, the one addItem returned.
ProbesSettleAndItemIsCreated ==
    [][(jobs # <<>> /\ Head(jobs).kind = "handleSubmit")
       => /\ Head(jobs).quickTitle.settles = "fulfilled"
          /\ Head(jobs).quickImage.settles = "fulfilled"
          /\ jobs' # jobs
             => /\ ItemOf(items', lastAdd'.returned) # NoItem
                /\ ItemOf(items', lastAdd'.returned).url = Head(jobs).inputValue]_vars

\* handleSubmit has created an item after both probes gave null
CreatedAfterNullProbes ==
    \E id \in Ids :
        /\ created[id] # NotCreated
        /\ created[id].by = "handleSubmit"
        /\ created[id].isUrl
        /\ created[id].quickTitle = Null
        /\ created[id].quickImage = Null
        /\ ItemOf(items, id) # NoItem
        /\ lastAdd = [returned |-> id, fresh |-> TRUE]

LoaderSettlesExactlyOnce ==
    [][(loader.called /\ loader'.events # loader.events)
       => IF loader.events = <<>>
          THEN Len(loader'.resolves) = 1 /\ loader'.settled
          ELSE loader'.resolves = loader.resolves /\ loader'.settled]_vars

\* the timer fired first and resolved false; the error of the image came
\* afterwards and resolved nothing
LateErrorIgnored ==
    /\ loader.called
    /\ loader.events = <<"timeout", "error">>
    /\ loader.resolves = <<FALSE>>

StoredTitleIsInferredTitle ==
    (unit.fn = "initialTitleToUse" /\ unit.returned /\ unit.result # UntitledLink)
    => /\ unit.result = inferTitleFromUrl(unit.args[1])
       /\ shouldSetTitle([title |-> unit.result, userEditedTitle |-> FALSE], unit.args[1])

\* C39: every item's metaStatus is pending, done or failed and its
\* metaAttempts is a natural number; no step lowers the metaAttempts of an
\* item, and a step in which an enrichment of the item succeeds leaves it
\* as it was.
MetaFieldsWellFormed ==
    /\ [](\A k \in 1..Len(items) :
             /\ items[k].metaStatus \in {"pending", "done", "failed"}
             /\ items[k].metaAttempts \in Nat)
    /\ [][\A id \in Ids :
             (ItemOf(items, id) # NoItem /\ ItemOf(items', id) # NoItem)
             => /\ ItemOf(items', id).metaAttempts >= ItemOf(items, id).metaAttempts
                /\ (/\ Len(settled'[id]) > Len(settled[id])
                    /\ settled'[id][Len(settled'[id])].outcome = "fulfilled")
                   => ItemOf(items', id).metaAttempts = ItemOf(items, id).metaAttempts]_vars

\* the retry button was pressed on an item stored failed after three
\* attempts: it is pending with four
AttemptsAdvancedByRetry ==
    \E k \in 1..Len(items) :
        /\ retried[items[k].id] = 1
        /\ items[k].metaStatus = "pending"
        /\ items[k].metaAttempts = 4

====
